---- MODULE Spec2Model ----
(***************************************************************************)
(* Financial aggregation core of NeuroSyncAI/backend: the finance routes   *)
(* (routes/finance.py) over the banking service                            *)
(* (services/banking_service.py) and the MongoDB collections               *)
(* financial_summaries, bank_transactions, plaid_tokens and budgets.       *)
(*                                                                         *)
(* Money is in integer cents.  Wall-clock time is in hours since           *)
(* 2024-02-28T00:00; a date is the number of days since 2024-01-01.        *)
(* Every route handler is one atomic action; the answer of Plaid and the   *)
(* failure of a database write are inputs chosen by the environment.       *)
(***************************************************************************)
EXTENDS Integers, Sequences, FiniteSets, TLC

VARIABLES now, plaid_tokens, bank_transactions, financial_summaries, budgets,
          nreq, last, runs, pure

vars == <<now, plaid_tokens, bank_transactions, financial_summaries, budgets,
          nreq, last, runs, pure>>

(***************************************************************************)
(* Bounds of the model.                                                    *)
(***************************************************************************)
MaxRequests == 2
MaxTokens == 2

(***************************************************************************)
(* Python values.                                                          *)
(***************************************************************************)
\* Python's None where the other values of the field are strings.
None == "<None>"

\* `if not s`: None and the empty string are both falsy.
Falsy(s) == s = None \/ s = ""

Max(a, b) == IF a >= b THEN a ELSE b

Abs(n) == IF n < 0 THEN -n ELSE n

RECURSIVE SumSeq(_)
SumSeq(s) == IF s = <<>> THEN 0 ELSE Head(s) + SumSeq(Tail(s))

(***************************************************************************)
(* str.lower() and the `in` test on strings.                               *)
(***************************************************************************)
UpperToLower ==
    [c \in {"A","B","C","D","E","F","G","H","I","J","K","L","M","N","O","P",
            "Q","R","S","T","U","V","W","X","Y","Z"} |->
       CASE c = "A" -> "a" [] c = "B" -> "b" [] c = "C" -> "c" [] c = "D" -> "d"
         [] c = "E" -> "e" [] c = "F" -> "f" [] c = "G" -> "g" [] c = "H" -> "h"
         [] c = "I" -> "i" [] c = "J" -> "j" [] c = "K" -> "k" [] c = "L" -> "l"
         [] c = "M" -> "m" [] c = "N" -> "n" [] c = "O" -> "o" [] c = "P" -> "p"
         [] c = "Q" -> "q" [] c = "R" -> "r" [] c = "S" -> "s" [] c = "T" -> "t"
         [] c = "U" -> "u" [] c = "V" -> "v" [] c = "W" -> "w" [] c = "X" -> "x"
         [] c = "Y" -> "y" [] c = "Z" -> "z"]

CharAt(s, i) == SubSeq(s, i, i)

RECURSIVE LowerFrom(_, _)
LowerFrom(s, i) ==
    IF i > Len(s) THEN ""
    ELSE LET c == CharAt(s, i)
         IN  (IF c \in DOMAIN UpperToLower THEN UpperToLower[c] ELSE c)
               \o LowerFrom(s, i + 1)

Lower(s) == LowerFrom(s, 1)

\* keyword in text
Contains(text, keyword) ==
    \E i \in 1..(Len(text) - Len(keyword) + 1) :
        SubSeq(text, i, i + Len(keyword) - 1) = keyword

(***************************************************************************)
(* datetime: strptime, strftime and calendar arithmetic.                   *)
(***************************************************************************)
DigitOf ==
    [c \in {"0","1","2","3","4","5","6","7","8","9"} |->
       CASE c = "0" -> 0 [] c = "1" -> 1 [] c = "2" -> 2 [] c = "3" -> 3
         [] c = "4" -> 4 [] c = "5" -> 5 [] c = "6" -> 6 [] c = "7" -> 7
         [] c = "8" -> 8 [] c = "9" -> 9]

DigitStr == <<"0","1","2","3","4","5","6","7","8","9">>

IsDigits(s) == Len(s) > 0 /\ \A i \in 1..Len(s) : CharAt(s, i) \in DOMAIN DigitOf

RECURSIVE ToInt(_)
ToInt(s) ==
    IF Len(s) = 0 THEN 0
    ELSE 10 * ToInt(SubSeq(s, 1, Len(s) - 1)) + DigitOf[CharAt(s, Len(s))]

IsLeap(y) == (y % 4 = 0 /\ y % 100 # 0) \/ y % 400 = 0

DaysInMonth(y, m) ==
    IF m = 2 THEN (IF IsLeap(y) THEN 29 ELSE 28)
    ELSE IF m \in {4, 6, 9, 11} THEN 30 ELSE 31

EpochYear == 2024

RECURSIVE DaysBeforeYear(_)
DaysBeforeYear(y) ==
    IF y <= EpochYear THEN 0
    ELSE DaysBeforeYear(y - 1) + (IF IsLeap(y - 1) THEN 366 ELSE 365)

RECURSIVE DaysBeforeMonth(_, _)
DaysBeforeMonth(y, m) ==
    IF m <= 1 THEN 0 ELSE DaysBeforeMonth(y, m - 1) + DaysInMonth(y, m - 1)

\* datetime(y, m, d) as days since 2024-01-01
Date(y, m, d) == DaysBeforeYear(y) + DaysBeforeMonth(y, m) + (d - 1)

YearsModelled == EpochYear..(EpochYear + 1)

\* the (year, month, day) of a day number: walk the months from (y, m)
RECURSIVE YMDFrom(_, _, _)
YMDFrom(y, m, ord) ==
    IF ord < DaysInMonth(y, m) THEN <<y, m, ord + 1>>
    ELSE IF m = 12 THEN YMDFrom(y + 1, 1, ord - DaysInMonth(y, m))
    ELSE YMDFrom(y, m + 1, ord - DaysInMonth(y, m))

YMD(ord) == YMDFrom(EpochYear, 1, ord)

Fmt2(n) == DigitStr[(n \div 10) + 1] \o DigitStr[(n % 10) + 1]

Fmt4(n) == Fmt2(n \div 100) \o Fmt2(n % 100)

FormatYMD(t) == Fmt4(t[1]) \o "-" \o Fmt2(t[2]) \o "-" \o Fmt2(t[3])

\* d.strftime('%Y-%m-%d')
strftime_ymd(ord) == FormatYMD(YMD(ord))

FirstOfMonth(t) == Date(t[1], t[2], 1)

\* positions of "-" in s
Dashes(s) == {i \in 1..Len(s) : CharAt(s, i) = "-"}

Least(S) == CHOOSE i \in S : \A j \in S : i <= j

Greatest(S) == CHOOSE i \in S : \A j \in S : j <= i

\* [ok |-> FALSE] stands for the ValueError of strptime.
Unparsed == [ok |-> FALSE, value |-> 0]

\* The three fields of '%Y-%m-%d': a 4-digit year, a 1- or 2-digit month and
\* day, a real calendar day.
ParseYMD(ys, ms, ds) ==
    IF /\ Len(ys) = 4 /\ IsDigits(ys)
       /\ Len(ms) \in {1, 2} /\ IsDigits(ms)
       /\ Len(ds) \in {1, 2} /\ IsDigits(ds)
       /\ ToInt(ys) \in YearsModelled
       /\ ToInt(ms) \in 1..12
       /\ ToInt(ds) \in 1..DaysInMonth(ToInt(ys), ToInt(ms))
    THEN [ok |-> TRUE, value |-> Date(ToInt(ys), ToInt(ms), ToInt(ds))]
    ELSE Unparsed

SplitYMD(s, dashes) ==
    IF Cardinality(dashes) # 2 THEN Unparsed
    ELSE ParseYMD(SubSeq(s, 1, Least(dashes) - 1),
                  SubSeq(s, Least(dashes) + 1, Greatest(dashes) - 1),
                  SubSeq(s, Greatest(dashes) + 1, Len(s)))

\* datetime.strptime(s, '%Y-%m-%d') as a day number
strptime_ymd(s) == SplitYMD(s, Dashes(s))

\* The two fields of '%Y-%m'.
ParseYM(ys, ms) ==
    IF /\ Len(ys) = 4 /\ IsDigits(ys)
       /\ Len(ms) \in {1, 2} /\ IsDigits(ms)
       /\ ToInt(ys) \in YearsModelled
       /\ ToInt(ms) \in 1..12
    THEN [ok |-> TRUE, value |-> Date(ToInt(ys), ToInt(ms), 1)]
    ELSE Unparsed

SplitYM(s, dashes) ==
    IF Cardinality(dashes) # 1 THEN Unparsed
    ELSE ParseYM(SubSeq(s, 1, Least(dashes) - 1), SubSeq(s, Least(dashes) + 1, Len(s)))

\* datetime.strptime(s, '%Y-%m'): the first day of the month
strptime_ym(s) == SplitYM(s, Dashes(s))

\* The wall clock: hours since 2024-02-28T00:00.
HoursPerDay == 24

ClockEpoch == Date(2024, 2, 28)

\* datetime.now() as a day number
Today(t) == ClockEpoch + (t \div HoursPerDay)

(***************************************************************************)
(* BankingService._categorize_transactions                                 *)
(***************************************************************************)
\* The keyword table, in the order the dict literal lists it.
merchant_category_map ==
    <<
       <<"grocery", "Groceries">>,
       <<"supermarket", "Groceries">>,
       <<"restaurant", "Restaurants">>,
       <<"doordash", "Food Delivery">>,
       <<"ubereats", "Food Delivery">>,
       <<"grubhub", "Food Delivery">>,
       <<"bakery", "Restaurants">>,
       <<"cafe", "Restaurants">>,
       <<"coffee shop", "Coffee & Tea">>,
       <<"starbucks", "Coffee & Tea">>,
       <<"electric", "Utilities">>,
       <<"water", "Utilities">>,
       <<"gas", "Utilities">>,
       <<"internet", "Internet">>,
       <<"cable", "Internet">>,
       <<"phone", "Phone">>,
       <<"mobile", "Phone">>,
       <<"insurance", "Insurance">>,
       <<"rent", "Housing">>,
       <<"mortgage", "Housing">>,
       <<"netflix", "Streaming Services">>,
       <<"hulu", "Streaming Services">>,
       <<"disney+", "Streaming Services">>,
       <<"spotify", "Music">>,
       <<"apple music", "Music">>,
       <<"movie", "Entertainment">>,
       <<"cinema", "Entertainment">>,
       <<"theatre", "Entertainment">>,
       <<"concert", "Entertainment">>,
       <<"amazon", "Online Shopping">>,
       <<"walmart", "Shopping">>,
       <<"target", "Shopping">>,
       <<"clothing", "Clothing">>,
       <<"electronics", "Electronics">>,
       <<"uber", "Rideshare">>,
       <<"lyft", "Rideshare">>,
       <<"gas station", "Gas">>,
       <<"fuel", "Gas">>,
       <<"parking", "Parking">>,
       <<"transit", "Public Transit">>,
       <<"subway", "Public Transit">>,
       <<"bus", "Public Transit">>,
       <<"train", "Public Transit">>,
       <<"airline", "Air Travel">>,
       <<"flight", "Air Travel">>,
       <<"pharmacy", "Healthcare">>,
       <<"doctor", "Healthcare">>,
       <<"medical", "Healthcare">>,
       <<"dental", "Healthcare">>,
       <<"gym", "Fitness">>,
       <<"fitness", "Fitness">>,
       <<"salon", "Personal Care">>,
       <<"barber", "Personal Care">>,
       <<"spa", "Personal Care">>,
       <<"tuition", "Education">>,
       <<"school", "Education">>,
       <<"book", "Education">>,
       <<"university", "Education">>,
       <<"college", "Education">>,
       <<"atm", "ATM/Cash">>,
       <<"withdrawal", "ATM/Cash">>,
       <<"fee", "Fees">>,
       <<"service fee", "Fees">>,
       <<"tax", "Taxes">>,
       <<"donation", "Charity">>,
       <<"gift", "Gifts">>
    >>

high_level_categories ==
    << <<"Food & Dining", {"Groceries", "Restaurants", "Food Delivery", "Coffee & Tea"}>>,
       <<"Housing & Utilities", {"Housing", "Utilities", "Internet", "Phone"}>>,
       <<"Entertainment", {"Streaming Services", "Music", "Entertainment"}>>,
       <<"Shopping", {"Online Shopping", "Shopping", "Clothing", "Electronics"}>>,
       <<"Transportation", {"Rideshare", "Gas", "Parking", "Public Transit", "Air Travel"}>>,
       <<"Health & Wellness", {"Healthcare", "Fitness", "Personal Care"}>>,
       <<"Education", {"Education"}>>,
       <<"Financial", {"ATM/Cash", "Fees", "Taxes"}>>,
       <<"Miscellaneous", {"Charity", "Gifts"}>> >>

\* Index of the first table entry whose keyword is in merchant or in name, 0 if none.
FirstKeyword(merchant, name) ==
    LET hits == {i \in 1..Len(merchant_category_map) :
                    \/ Contains(merchant, merchant_category_map[i][1])
                    \/ Contains(name, merchant_category_map[i][1])}
    IN  IF hits = {} THEN 0 ELSE CHOOSE i \in hits : \A j \in hits : i <= j

HighLevelOf(category) ==
    LET hits == {i \in 1..Len(high_level_categories) :
                    category \in high_level_categories[i][2]}
    IN  IF hits = {} THEN "Uncategorized"
        ELSE high_level_categories[CHOOSE i \in hits : \A j \in hits : i <= j][1]

\* None.lower() raises AttributeError
CategorizeRaises(t) == t.merchant_name = None \/ t.name = None

\* A loop body that takes a zero amount for an expense.
CategoryFields_ZeroIsExpense(t) ==
    [enhanced_category |-> IF t.amount >= 0 THEN "Uncategorized" ELSE "Income",
     category_confidence |-> "medium",
     high_level_category |-> IF t.amount >= 0 THEN "Uncategorized" ELSE "Income",
     transaction_type |-> IF t.amount >= 0 THEN "expense" ELSE "income"]

\* One pass of the loop body, for a transaction it does not raise on: the
\* fields the loop adds to the transaction.
CategoryFields(t) ==
    LET plaid_category == IF t.category # <<>> THEN t.category[1] ELSE "Uncategorized"
        k == FirstKeyword(Lower(t.merchant_name), Lower(t.name))
        enhanced == IF k = 0 THEN plaid_category ELSE merchant_category_map[k][2]
        confidence == IF k = 0 THEN "medium" ELSE "high"
    IN  IF t.amount > 0
        THEN [enhanced_category |-> enhanced,
              category_confidence |-> confidence,
              high_level_category |-> HighLevelOf(enhanced),
              transaction_type |-> "expense"]
        ELSE [enhanced_category |-> "Income",
              category_confidence |-> confidence,
              high_level_category |-> "Income",
              transaction_type |-> "income"]

(***************************************************************************)
(* The outside world: users, what Plaid holds and how a call to it ends.   *)
(***************************************************************************)
Users == {"u1", "u2"}

InstitutionIds == {"ins_1", "ins_2"}

ItemIds == {"item_1", "item_2"}

\* A transaction as BankingService.get_transactions hands it on (category_id
\* and payment_channel are copied through and never read; they are left out).
\* A null category list takes the same branch as an empty one and is written <<>>.
Raw(id, amount, date, name, merchant, category, pending) ==
    [transaction_id |-> id, account_id |-> "acc_1", amount |-> amount,
     date |-> date, name |-> name, merchant_name |-> merchant,
     category |-> category, pending |-> pending]

r1 == Raw("t1", 450, Date(2024, 2, 28), "STARBUCKS #123", "Starbucks",
          <<"Food and Drink", "Coffee Shop">>, FALSE)

r1p == [r1 EXCEPT !.pending = TRUE]

r2 == Raw("t2", 6000, Date(2024, 2, 29), "Shell Gas Station", "Shell",
          <<"Travel">>, FALSE)

r3 == Raw("t3", -250000, Date(2024, 3, 1), "Payroll Deposit", "Acme Corp",
          <<"Transfer", "Payroll">>, FALSE)

r4 == Raw("t4", 1200, Date(2024, 2, 28), "Corner Store", None, <<>>, FALSE)

r5 == Raw("t5", 450, Date(2024, 2, 28), "Zed Hardware", "Zed", <<>>, FALSE)

\* t1 once the bank has reversed it: the same transaction with another amount
r1n == [r1 EXCEPT !.amount = -450]

RawPool == {r1, r1p, r1n, r2, r3, r4, r5}

\* The transactions the categorizer is called with on its own: every name and
\* merchant shape (matching a keyword, matching none, null), amounts of either
\* sign and zero, with and without an aggregator category.
CatPool ==
    {Raw("t0", amount, Date(2024, 2, 28), name, merchant, category, FALSE) :
        amount \in {-250000, 0, 450},
        name \in {"STARBUCKS #123", "Shell Gas Station", "Payroll Deposit",
                  "Zed Hardware", None},
        merchant \in {"Starbucks", "Shell", "Zed", None},
        category \in {<<>>, <<"Travel">>}}

\* What an item's transactions_get can answer with, before the date filter.
Ledgers == {<<r1, r2, r3>>, <<r1p, r5>>, <<r4>>, <<>>}

\* How transactions_get can fail: an ApiException with error_code
\* ITEM_LOGIN_REQUIRED, an ApiException with another code, any other exception.
PlaidErrors == {"ITEM_LOGIN_REQUIRED", "RATE_LIMIT_EXCEEDED", "TIMEOUT"}

PlaidOk(ledger) == [ok |-> TRUE, ledger |-> ledger, error |-> ""]

PlaidFail(code) == [ok |-> FALSE, ledger |-> <<>>, error |-> code]

PlaidOutcomes == {PlaidOk(l) : l \in Ledgers} \cup {PlaidFail(c) : c \in PlaidErrors}

\* Which database write of a request raises, if any.
DbFaults == {"none", "store_1", "store_2", "cache"}

\* The categorizer reads only the raw fields: its result per raw transaction.
RawFields == {"transaction_id", "account_id", "amount", "date", "name",
              "merchant_name", "category", "pending"}

RawOf(t) == [f \in RawFields |-> t[f]]

CategoryFieldsOf ==
    [r \in {x \in RawPool \cup CatPool : ~CategorizeRaises(x)} |-> CategoryFields(r)]

\* The loop assigns the new fields into the dicts of the list it was given:
\* what the caller's list holds once the call has returned or raised. The
\* transaction it raises on already has the two fields set before .lower().
RECURSIVE MutatedArgument(_)
MutatedArgument(transactions) ==
    IF transactions = <<>> THEN <<>>
    ELSE IF CategorizeRaises(Head(transactions))
    THEN <<[enhanced_category |-> IF Head(transactions).category # <<>>
                                  THEN Head(transactions).category[1] ELSE "Uncategorized",
            category_confidence |-> "medium"] @@ Head(transactions)>> \o Tail(transactions)
    ELSE <<CategoryFields(RawOf(Head(transactions))) @@ Head(transactions)>>
            \o MutatedArgument(Tail(transactions))

\* _categorize_transactions: every transaction gets the four fields, or the
\* loop raises AttributeError at the first transaction with a None name.
_categorize_transactions(transactions) ==
    IF \E i \in 1..Len(transactions) : CategorizeRaises(transactions[i])
    THEN [ok |-> FALSE, error |-> "'NoneType' object has no attribute 'lower'",
          transactions |-> <<>>]
    ELSE [ok |-> TRUE, error |-> "",
          transactions |-> [i \in 1..Len(transactions) |->
                               CategoryFieldsOf[RawOf(transactions[i])] @@ transactions[i]]]

(***************************************************************************)
(* BankingService._generate_transaction_summary                            *)
(***************************************************************************)
\* An assignment that overwrites the total of a key already there.
DictAdd_Overwrites(d, k, v) == (k :> v) @@ d

\* d[k] += v, or d[k] = v for a new key
DictAdd(d, k, v) == IF k \in DOMAIN d THEN [d EXCEPT ![k] = @ + v] ELSE (k :> v) @@ d

\* An insertion that puts x before the entries of its own amount.
InsertDesc_BeforeEquals(sorted, x) ==
    LET k == Cardinality({i \in 1..Len(sorted) : sorted[i].amount > x.amount})
    IN  SubSeq(sorted, 1, k) \o <<x>> \o SubSeq(sorted, k + 1, Len(sorted))

\* x goes after every entry at least as large
InsertDesc(sorted, x) ==
    LET k == Cardinality({i \in 1..Len(sorted) : sorted[i].amount >= x.amount})
    IN  SubSeq(sorted, 1, k) \o <<x>> \o SubSeq(sorted, k + 1, Len(sorted))

\* sorted(items, key=amount, reverse=True): descending and stable
RECURSIVE SortedDesc(_)
SortedDesc(items) ==
    IF items = <<>> THEN <<>>
    ELSE InsertDesc(SortedDesc(SubSeq(items, 1, Len(items) - 1)), items[Len(items)])

TopN == 5

\* The cut taken without sorting first.
Top5_Unsorted(items) == SubSeq(items, 1, IF Len(items) < TopN THEN Len(items) ELSE TopN)


Top5(items) == SubSeq(SortedDesc(items), 1, IF Len(items) < TopN THEN Len(items) ELSE TopN)

EmptySummary ==
    [total_expenses |-> 0, total_income |-> 0, net_cash_flow |-> 0,
     expense_by_category |-> <<>>, expense_by_high_level_category |-> <<>>,
     transaction_count_by_category |-> <<>>,
     largest_expenses |-> <<>>, largest_income |-> <<>>]

\* One pass of the loop body.
SummaryStep(s, t) ==
    IF t.pending THEN s
    ELSE IF t.transaction_type = "expense"
    THEN [s EXCEPT
            !.total_expenses = @ + t.amount,
            !.expense_by_category = DictAdd(@, t.enhanced_category, t.amount),
            !.expense_by_high_level_category = DictAdd(@, t.high_level_category, t.amount),
            !.largest_expenses = Append(@, [name |-> t.name, amount |-> t.amount,
                                            date |-> t.date, category |-> t.enhanced_category]),
            !.transaction_count_by_category = DictAdd(@, t.enhanced_category, 1)]
    ELSE [s EXCEPT
            !.total_income = @ + Abs(t.amount),
            !.largest_income = Append(@, [name |-> t.name, amount |-> Abs(t.amount),
                                          date |-> t.date]),
            !.transaction_count_by_category = DictAdd(@, t.enhanced_category, 1)]

RECURSIVE SummaryLoop(_, _)
SummaryLoop(s, transactions) ==
    IF transactions = <<>> THEN s
    ELSE SummaryLoop(SummaryStep(s, Head(transactions)), Tail(transactions))

\* The aggregator with the net cash flow taken the other way round.
SummaryFinish_NetReversed(s) ==
    [s EXCEPT !.net_cash_flow = s.total_expenses - s.total_income,
              !.largest_expenses = Top5(s.largest_expenses),
              !.largest_income = Top5(s.largest_income)]

\* The totals once the loop has run: net cash flow and the two top-5 lists.
SummaryFinish(s) ==
    [s EXCEPT !.net_cash_flow = s.total_income - s.total_expenses,
              !.largest_expenses = Top5(s.largest_expenses),
              !.largest_income = Top5(s.largest_income)]

_generate_transaction_summary(transactions) ==
    SummaryFinish(SummaryLoop(EmptySummary, transactions))

(***************************************************************************)
(* BankingService: tokens, Plaid calls, ingestion.                         *)
(***************************************************************************)
\* Fernet encryption of a stored field (the token is opaque; never read back here).
_encrypt_token(s) == "enc:" \o s

\* plaid_tokens.find({"user_id": user_id}), in the collection's order
get_connected_banks(tokens, user_id) ==
    SelectSeq(tokens, LAMBDA d : d.user_id = user_id)

\* The first of the documents with the greatest updated_at.
Newest(found) ==
    CHOOSE i \in 1..Len(found) :
        /\ \A j \in 1..Len(found) : found[j].updated_at <= found[i].updated_at
        /\ \A j \in 1..(i - 1) : found[j].updated_at < found[i].updated_at

ItemOfNewest(found) == IF found = <<>> THEN None ELSE found[Newest(found)].item_id

\* find_one(query, sort=[("updated_at", -1)]): the item whose access token is used
get_access_token(tokens, user_id, institution_id) ==
    ItemOfNewest(SelectSeq(tokens, LAMBDA d :
                     /\ d.user_id = user_id
                     /\ (Falsy(institution_id) \/ d.institution_id = institution_id)))

NoDate == -1

DefaultWindowDays == 30

\* The three except branches of get_transactions, by what transactions_get raised.
PlaidErrorMessage(code) ==
    IF code = "ITEM_LOGIN_REQUIRED" THEN "Banking connection requires re-authentication"
    ELSE IF code = "TIMEOUT" THEN "Failed to retrieve transactions: " \o code
    ELSE "Banking API error: " \o code

\* transactions_get with the access token of an item, and the except branches.
TransactionsGet(access_token, lo, hi, plaid) ==
    IF access_token = None
    THEN [ok |-> FALSE, transactions |-> <<>>,
          error |-> "Failed to retrieve transactions: No banking connection found",
          io |-> <<"plaid_tokens.find_one">>]
    ELSE IF ~plaid[access_token].ok
    THEN [ok |-> FALSE, transactions |-> <<>>,
          error |-> PlaidErrorMessage(plaid[access_token].error),
          io |-> <<"plaid_tokens.find_one", "plaid.transactions_get">>]
    ELSE [ok |-> TRUE,
          transactions |-> SelectSeq(plaid[access_token].ledger,
                                     LAMBDA x : lo <= x.date /\ x.date <= hi),
          error |-> "",
          io |-> <<"plaid_tokens.find_one", "plaid.transactions_get">>]

\* get_transactions: plaid[item] is how Plaid answers for that item; Plaid
\* returns the item's transactions dated within [start_date, end_date].
get_transactions(tokens, user_id, institution_id, start_date, end_date, t, plaid) ==
    TransactionsGet(get_access_token(tokens, user_id, institution_id),
                    IF start_date = NoDate THEN Today(t) - DefaultWindowDays ELSE start_date,
                    IF end_date = NoDate THEN Today(t) ELSE end_date,
                    plaid)

\* The institution the loop tags every transaction of a bank with
\* (institution_name is set the same way and never read).
WithBank(transactions, bank) ==
    [i \in 1..Len(transactions) |->
        [institution_id |-> bank.institution_id] @@ transactions[i]]

\* One pass of the loop over the banks: got is what get_transactions returned
\* or raised for the bank.
FetchStep(acc, bank, got) ==
    IF got.ok
    THEN [acc EXCEPT !.all_transactions = @ \o WithBank(got.transactions, bank),
                     !.succeeded = @ + 1,
                     !.io = @ \o got.io]
    ELSE [acc EXCEPT !.logged = Append(@, got.error),
                     !.io = @ \o got.io]

\* for bank in connected_banks: accumulate the transactions, log the failures
RECURSIVE FetchLoop(_, _, _, _, _, _, _, _)
FetchLoop(banks, acc, tokens, user_id, start_date, end_date, t, plaid) ==
    IF banks = <<>> THEN acc
    ELSE FetchLoop(Tail(banks),
                   FetchStep(acc, Head(banks),
                             get_transactions(tokens, user_id, Head(banks).institution_id,
                                              start_date, end_date, t, plaid)),
                   tokens, user_id, start_date, end_date, t, plaid)

\* The document _store_transactions writes for a transaction.
trans_to_store(user_id, transaction, t) ==
    [user_id |-> user_id, stored_at |-> t,
     name |-> IF Falsy(transaction.name) THEN transaction.name
              ELSE _encrypt_token(transaction.name),
     merchant_name |-> IF Falsy(transaction.merchant_name) THEN transaction.merchant_name
                       ELSE _encrypt_token(transaction.merchant_name),
     account_id |-> IF Falsy(transaction.account_id) THEN transaction.account_id
                    ELSE _encrypt_token(transaction.account_id)] @@ transaction

\* A write that inserts whether or not the transaction is stored already.
ReplaceOrAppend_Appends(store, same, doc) == Append(store, doc)

\* An update that leaves the stored transaction_type as it was.
ReplaceOrAppend_KeepsType(store, same, doc) ==
    IF same # {}
    THEN [store EXCEPT ![Least(same)] =
             [doc EXCEPT !.transaction_type = store[Least(same)].transaction_type]]
    ELSE Append(store, doc)

ReplaceOrAppend(store, same, doc) ==
    IF same # {} THEN [store EXCEPT ![Least(same)] = doc] ELSE Append(store, doc)

\* find_one on (user_id, transaction_id), then update_one on its _id or insert_one
UpsertTransaction(store, doc) ==
    ReplaceOrAppend(store,
                    {i \in 1..Len(store) : /\ store[i].user_id = doc.user_id
                                            /\ store[i].transaction_id = doc.transaction_id},
                    doc)

\* _store_transactions: the loop stops at the first database call that raises
\* (fail_at = 0: none does); the exception is logged and swallowed.
RECURSIVE StoreLoop(_, _, _, _, _, _)
StoreLoop(store, user_id, transactions, i, fail_at, t) ==
    IF i > Len(transactions) \/ i = fail_at THEN store
    ELSE StoreLoop(UpsertTransaction(store, trans_to_store(user_id, transactions[i], t)),
                   user_id, transactions, i + 1, fail_at, t)

_store_transactions(store, user_id, transactions, fail_at, t) ==
    StoreLoop(store, user_id, transactions, 1, fail_at, t)

ValueErrorOfFetch(msg) == "Failed to fetch bank transactions: " \o msg

StrptimeError == "time data does not match format"

\* What the outer except of fetch_bank_transactions raises: ok = FALSE stands
\* for the ValueError, f is what the loop over the banks had gathered.
FetchRaises(msg, io, store, banks, f) ==
    [ok |-> FALSE, error |-> ValueErrorOfFetch(msg), io |-> io,
     transactions |-> <<>>, summary |-> EmptySummary, transaction_count |-> 0,
     date_range |-> [start_date |-> "", end_date |-> ""],
     store |-> store, banks |-> banks,
     succeeded |-> f.succeeded, logged |-> f.logged, raw |-> f.all_transactions]

NothingFetched == [all_transactions |-> <<>>, succeeded |-> 0, logged |-> <<>>]

\* An ingestion that raises for an empty result only when no bank answered.
FetchReturns_EmptyAccepted(store, user_id, start_date, end_date, t, fail_at, banks, fetched, categorized) ==
    IF fetched.all_transactions = <<>> /\ fetched.succeeded = 0
    THEN FetchRaises("No transactions found for the specified period", fetched.io,
                     store, banks, fetched)
    ELSE IF ~categorized.ok
    THEN FetchRaises(categorized.error, fetched.io, store, banks, fetched)
    ELSE [ok |-> TRUE, error |-> "",
          io |-> fetched.io \o <<"bank_transactions.write">>,
          transactions |-> categorized.transactions,
          summary |-> _generate_transaction_summary(categorized.transactions),
          transaction_count |-> Len(categorized.transactions),
          date_range |-> [start_date |-> start_date, end_date |-> end_date],
          store |-> _store_transactions(store, user_id, categorized.transactions,
                                        fail_at, t),
          banks |-> banks,
          succeeded |-> fetched.succeeded, logged |-> fetched.logged,
          raw |-> fetched.all_transactions]

\* The rest of fetch_bank_transactions once the loop over the banks has run:
\* categorize, summarize, store, return.
FetchReturns(store, user_id, start_date, end_date, t, fail_at, banks, fetched, categorized) ==
    IF fetched.all_transactions = <<>>
    THEN FetchRaises("No transactions found for the specified period", fetched.io,
                     store, banks, fetched)
    ELSE IF ~categorized.ok
    THEN FetchRaises(categorized.error, fetched.io, store, banks, fetched)
    ELSE [ok |-> TRUE, error |-> "",
          io |-> fetched.io \o <<"bank_transactions.write">>,
          transactions |-> categorized.transactions,
          summary |-> _generate_transaction_summary(categorized.transactions),
          transaction_count |-> Len(categorized.transactions),
          date_range |->
              [start_date |-> IF Falsy(start_date)
                              THEN strftime_ymd(Today(t) - DefaultWindowDays)
                              ELSE start_date,
               end_date |-> IF Falsy(end_date) THEN strftime_ymd(Today(t)) ELSE end_date],
          store |-> _store_transactions(store, user_id, categorized.transactions,
                                        fail_at, t),
          banks |-> banks,
          succeeded |-> fetched.succeeded, logged |-> fetched.logged,
          raw |-> fetched.all_transactions]

FetchCategorizes(store, user_id, start_date, end_date, t, fail_at, banks, fetched) ==
    FetchReturns(store, user_id, start_date, end_date, t, fail_at, banks, fetched,
                 _categorize_transactions(fetched.all_transactions))

\* fetch_bank_transactions from the parsed dates on.
FetchParsed(tokens, store, user_id, start_date, end_date, t, plaid, fail_at, parsed_start, parsed_end, connected_banks) ==
    IF ~parsed_start.ok \/ ~parsed_end.ok
    THEN FetchRaises(StrptimeError, <<>>, store, 0, NothingFetched)
    ELSE IF connected_banks = <<>>
    THEN FetchRaises("No connected banks found for this user", <<"plaid_tokens.find">>,
                     store, 0, NothingFetched)
    ELSE FetchCategorizes(store, user_id, start_date, end_date, t, fail_at,
                          Len(connected_banks),
                          FetchLoop(connected_banks,
                                    [all_transactions |-> <<>>, succeeded |-> 0,
                                     logged |-> <<>>, io |-> <<"plaid_tokens.find">>],
                                    tokens, user_id, parsed_start.value, parsed_end.value,
                                    t, plaid))

ParseOptional(date) ==
    IF Falsy(date) THEN [ok |-> TRUE, value |-> NoDate] ELSE strptime_ymd(date)

\* fetch_bank_transactions(user_id, start_date, end_date, store=True) at time t;
\* fail_at is the transaction at which the store raises (0: it does not).
fetch_bank_transactions(tokens, store, user_id, start_date, end_date, t, plaid, fail_at) ==
    FetchParsed(tokens, store, user_id, start_date, end_date, t, plaid, fail_at,
                ParseOptional(start_date), ParseOptional(end_date),
                get_connected_banks(tokens, user_id))

(***************************************************************************)
(* routes/finance.py                                                       *)
(***************************************************************************)
\* timedelta(hours=24) of the cache lookup
FreshnessHours == 24

\* The fields of the response_model TransactionSummary.
TransactionSummaryFields ==
    {"total_expenses", "total_income", "net_cash_flow", "expense_by_category",
     "expense_by_high_level_category", "largest_expenses", "largest_income",
     "transaction_count", "date_range"}

\* What FastAPI sends of a returned dict under response_model=TransactionSummary.
Response(d) == [f \in TransactionSummaryFields |-> d[f]]

NoBody == [nothing |-> TRUE]

\* The stored transactions of a user dated within [lo, hi], in collection order.
StoredInRange(store, user_id, lo, hi) ==
    SelectSeq(store, LAMBDA d : d.user_id = user_id /\ lo <= d.date /\ d.date <= hi)

\* One pass of the loop of _generate_summary_from_stored_transactions.
StoredSummaryStep(s, t) ==
    IF t.pending THEN s
    ELSE IF t.transaction_type = "expense"
    THEN [s EXCEPT
            !.total_expenses = @ + t.amount,
            !.expense_by_category = DictAdd(@, t.enhanced_category, t.amount),
            !.expense_by_high_level_category = DictAdd(@, t.high_level_category, t.amount),
            !.largest_expenses = Append(@, [name |-> t.name, amount |-> t.amount,
                                            date |-> strftime_ymd(t.date),
                                            category |-> t.enhanced_category])]
    ELSE [s EXCEPT
            !.total_income = @ + Abs(t.amount),
            !.largest_income = Append(@, [name |-> t.name, amount |-> Abs(t.amount),
                                          date |-> strftime_ymd(t.date)])]

RECURSIVE StoredSummaryLoop(_, _)
StoredSummaryLoop(s, transactions) ==
    IF transactions = <<>> THEN s
    ELSE StoredSummaryLoop(StoredSummaryStep(s, Head(transactions)), Tail(transactions))

\* The summary of the transactions the query found.
StoredSummaryOf(transactions, start_date, end_date) ==
    SummaryFinish(StoredSummaryLoop(
        [total_expenses |-> 0, total_income |-> 0, net_cash_flow |-> 0,
         expense_by_category |-> <<>>, expense_by_high_level_category |-> <<>>,
         largest_expenses |-> <<>>, largest_income |-> <<>>,
         transaction_count |-> Len(transactions),
         date_range |-> [start_date |-> start_date, end_date |-> end_date]],
        transactions))

\* _generate_summary_from_stored_transactions(user_id, start_date, end_date),
\* for dates that parse.
_generate_summary_from_stored_transactions(store, user_id, start_date, end_date) ==
    StoredSummaryOf(StoredInRange(store, user_id, strptime_ymd(start_date).value,
                                  strptime_ymd(end_date).value),
                    start_date, end_date)

\* The documents of the cache key (user_id, start_date, end_date).
CacheEntries(summaries, user_id, start_date, end_date) ==
    {d \in summaries : /\ d.user_id = user_id
                       /\ d.date_range.start_date = start_date
                       /\ d.date_range.end_date = end_date}

\* A lookup that finds nothing.
CacheLookup_Never(summaries, user_id, start_date, end_date, t) == {}

\* The filter of the cache lookup: the key, and created_at >= now - 24h.
CacheLookup(summaries, user_id, start_date, end_date, t) ==
    {d \in CacheEntries(summaries, user_id, start_date, end_date) :
        d.created_at >= t - FreshnessHours}

\* A write that inserts and never replaces.
ReplaceOne_Inserts(summaries, same, doc) == summaries \cup {doc}

\* update_one(key, {"$set": ...}, upsert=True): one document of the key is
\* replaced by doc, or doc is inserted.
ReplaceOne(summaries, same, doc) ==
    IF same = {} THEN summaries \cup {doc}
    ELSE (summaries \ {CHOOSE d \in same : TRUE}) \cup {doc}

\* update_one(key, {"$set": {**summary, "created_at": now}}, upsert=True)
CacheUpsert(summaries, user_id, start_date, end_date, summary, t) ==
    ReplaceOne(summaries, CacheEntries(summaries, user_id, start_date, end_date),
               [user_id |-> user_id, created_at |-> t] @@ summary)

\* raise ValueError(f"Could not fetch banking data: {str(e)}"), answered 400
CouldNotFetch(e, io) ==
    [status |-> 400, detail |-> "Could not fetch banking data: " \o e,
     body |-> NoBody, path |-> "error", io |-> io]

\* A fallback that reads the store whatever the refresh flag.
FallbackStored_AnyRefresh(store, user_id, refresh, e, io, lo, hi) ==
    IF ~lo.ok \/ ~hi.ok
    THEN [status |-> 400, detail |-> StrptimeError, body |-> NoBody,
          path |-> "error", io |-> io]
    ELSE IF Len(StoredInRange(store, user_id, lo.value, hi.value)) > 0
    THEN [status |-> 500,
          detail |-> "Error retrieving financial summary: name 'self' is not defined",
          body |-> NoBody, path |-> "error",
          io |-> Append(io, "bank_transactions.count_documents")]
    ELSE CouldNotFetch(e, Append(io, "bank_transactions.count_documents"))

\* The except ValueError branch of the inner try, from the parsed dates on.
FallbackStored(store, user_id, refresh, e, io, lo, hi) ==
    IF refresh THEN CouldNotFetch(e, io)
    ELSE IF ~lo.ok \/ ~hi.ok
    THEN \* strptime raises ValueError while the count query is built
         [status |-> 400, detail |-> StrptimeError, body |-> NoBody,
          path |-> "error", io |-> io]
    ELSE IF Len(StoredInRange(store, user_id, lo.value, hi.value)) > 0
    THEN \* self._generate_summary_from_stored_transactions(...): the handler is a
         \* module-level function and `self` is not defined; the NameError is no
         \* ValueError and reaches the outer except Exception
         [status |-> 500,
          detail |-> "Error retrieving financial summary: name 'self' is not defined",
          body |-> NoBody, path |-> "error",
          io |-> Append(io, "bank_transactions.count_documents")]
    ELSE CouldNotFetch(e, Append(io, "bank_transactions.count_documents"))

\* What the except ValueError branch of the inner try does with the error e of
\* the failed fetch.
FetchFailed(store, user_id, start_date, end_date, refresh, e, io) ==
    FallbackStored(store, user_id, refresh, e, io,
                   strptime_ymd(start_date), strptime_ymd(end_date))

\* The summary the handler builds of a fetch that returned.
LiveSummary(fetch) ==
    [transaction_count |-> fetch.transaction_count, date_range |-> fetch.date_range]
        @@ fetch.summary

\* The handler after the cache lookup: hits are the documents it matched, io0
\* the calls made so far, fetch what fetch_bank_transactions does if called.
SummaryAfterLookup(summaries, store, user_id, start_date, end_date, refresh, t, fault, hits, io0, fetch) ==
    IF hits # {} /\ ~refresh
    THEN [status |-> 200, detail |-> "", body |-> Response(CHOOSE d \in hits : TRUE),
          path |-> "cache", io |-> io0,
          start_date |-> start_date, end_date |-> end_date,
          summaries |-> summaries, store |-> store, fetched |-> FALSE, fetch |-> fetch]
    ELSE IF fetch.ok
    THEN IF fault = "cache"
         THEN \* update_one raises: no ValueError, the outer except Exception
              [status |-> 500,
               detail |-> "Error retrieving financial summary: database write failed",
               body |-> NoBody, path |-> "error",
               io |-> io0 \o fetch.io \o <<"financial_summaries.update_one">>,
               start_date |-> start_date, end_date |-> end_date,
               summaries |-> summaries, store |-> fetch.store,
               fetched |-> TRUE, fetch |-> fetch]
         ELSE [status |-> 200, detail |-> "", body |-> Response(LiveSummary(fetch)),
               path |-> "live",
               io |-> io0 \o fetch.io \o <<"financial_summaries.update_one">>,
               start_date |-> start_date, end_date |-> end_date,
               summaries |-> CacheUpsert(summaries, user_id, start_date, end_date,
                                         LiveSummary(fetch), t),
               store |-> fetch.store, fetched |-> TRUE, fetch |-> fetch]
    ELSE [start_date |-> start_date, end_date |-> end_date,
          summaries |-> summaries, store |-> store, fetched |-> TRUE, fetch |-> fetch]
           @@ FetchFailed(store, user_id, start_date, end_date, refresh, fetch.error,
                          io0 \o fetch.io)

StoreFailAt(fault) == IF fault = "store_1" THEN 1 ELSE IF fault = "store_2" THEN 2 ELSE 0

\* The handler from the effective dates on.
SummaryForRange(summaries, store, tokens, user_id, start_date, end_date, refresh, t, plaid, fault) ==
    SummaryAfterLookup(summaries, store, user_id, start_date, end_date, refresh, t, fault,
                       IF refresh THEN {}
                       ELSE CacheLookup(summaries, user_id, start_date, end_date, t),
                       IF refresh THEN <<>> ELSE <<"financial_summaries.find_one">>,
                       fetch_bank_transactions(tokens, store, user_id, start_date,
                                               end_date, t, plaid, StoreFailAt(fault)))

\* get_financial_summary(user_id, start_date, end_date, refresh) at time t:
\* the response, and the two collections it leaves.
get_financial_summary(summaries, store, tokens, user_id, start_date, end_date, refresh, t, plaid, fault) ==
    SummaryForRange(summaries, store, tokens, user_id,
                    IF Falsy(start_date) THEN strftime_ymd(FirstOfMonth(YMD(Today(t))))
                    ELSE start_date,
                    IF Falsy(end_date) THEN strftime_ymd(Today(t)) ELSE end_date,
                    refresh, t, plaid, fault)

\* Depends(lambda: get_collection("budgets")): get_collection is `async def`
\* (db/database.py) and the lambda is a plain function, so FastAPI calls it
\* without awaiting the coroutine it returns.  The handler receives a
\* coroutine object and the first method called on it raises AttributeError.
DependsAwaited == FALSE

MonthError == "Month must be in the format YYYY-MM"

\* The handler once the month is valid and the collection usable: existing are
\* the budgets of the (user_id, month).
BudgetUpsert(store, budget, t, existing) ==
    IF existing # {}
    THEN [status |-> 201, detail |-> "Budget updated successfully",
          body |-> [(CHOOSE b \in existing : TRUE) EXCEPT
                       !.total_budget = budget.total_budget,
                       !.categories = budget.categories,
                       !.updated_at = t],
          io |-> <<"budgets.find_one", "budgets.update_one", "budgets.find_one">>,
          budgets |-> (store \ {CHOOSE b \in existing : TRUE})
                        \cup {[(CHOOSE b \in existing : TRUE) EXCEPT
                                  !.total_budget = budget.total_budget,
                                  !.categories = budget.categories,
                                  !.updated_at = t]}]
    ELSE [status |-> 201, detail |-> "Budget created successfully",
          body |-> [created_at |-> t, updated_at |-> t] @@ budget,
          io |-> <<"budgets.find_one", "budgets.insert_one", "budgets.find_one">>,
          budgets |-> store \cup {[created_at |-> t, updated_at |-> t] @@ budget}]

\* create_budget(budget) at time t: the response and the budgets it leaves.
create_budget(store, budget, t) ==
    IF ~strptime_ym(budget.month).ok
    THEN [status |-> 400, detail |-> MonthError, body |-> NoBody,
          io |-> <<>>, budgets |-> store]
    ELSE IF ~DependsAwaited
    THEN [status |-> 500,
          detail |-> "Error creating budget: 'coroutine' object has no attribute 'find_one'",
          body |-> NoBody, io |-> <<>>, budgets |-> store]
    ELSE BudgetUpsert(store, budget, t,
                      {b \in store : b.user_id = budget.user_id /\ b.month = budget.month})

NextMonthStart(ymd) ==
    IF ymd[2] = 12 THEN Date(ymd[1] + 1, 1, 1) ELSE Date(ymd[1], ymd[2] + 1, 1)

\* The month end taken as thirty days from the first day.
MonthEnd_ThirtyDays(first_day) == first_day + 29

\* The first day of the month after the month of first_day, minus one day.
MonthEnd(first_day) == NextMonthStart(YMD(first_day)) - 1

\* Instants are <<day, hour of the day>>. datetime(year, month, 1) is midnight.
DayStart(day) == <<day, 0>>

\* datetime.combine(end_date, datetime.max.time()): the last instant of the day
DayEnd(day) == <<day, HoursPerDay - 1>>

\* {"$gte": lo, "$lte": hi} on instants
WithinInstants(at, lo, hi) ==
    /\ (lo[1] < at[1] \/ (lo[1] = at[1] /\ lo[2] <= at[2]))
    /\ (at[1] < hi[1] \/ (at[1] = hi[1] /\ at[2] <= hi[2]))

\* start_date and end_date of the month that begins on first_day, and the
\* strings handed to the live fetch.
MonthRange(first_day) ==
    [ok |-> TRUE,
     start_date |-> DayStart(first_day),
     end_date |-> DayEnd(MonthEnd(first_day)),
     fetch_start |-> strftime_ymd(first_day),
     fetch_end |-> strftime_ymd(MonthEnd(first_day))]

\* A $match without the condition on pending.
StoredExpenses_WithPending(store, user_id, lo, hi) ==
    SelectSeq(StoredInRange(store, user_id, lo, hi),
              LAMBDA d : d.transaction_type = "expense")

\* The $match/$group pipeline of the fallback: spend per enhanced_category.
StoredExpenses(store, user_id, lo, hi) ==
    SelectSeq(StoredInRange(store, user_id, lo, hi),
              LAMBDA d : d.transaction_type = "expense" /\ d.pending # TRUE)

RECURSIVE GroupByCategory(_)
GroupByCategory(transactions) ==
    IF transactions = <<>> THEN <<>>
    ELSE DictAdd(GroupByCategory(Tail(transactions)),
                 Head(transactions).enhanced_category, Head(transactions).amount)

RECURSIVE SumAmounts(_)
SumAmounts(transactions) ==
    IF transactions = <<>> THEN 0
    ELSE Head(transactions).amount + SumAmounts(Tail(transactions))

WarningPercent == 80

ExceededPercent == 100

\* The status with the two boundaries taken as still below the threshold.
ProgressStatus_BoundaryBelow(spent, budget_amount) ==
    IF budget_amount <= 0 THEN "on_track"
    ELSE IF spent * 100 <= WarningPercent * budget_amount THEN "on_track"
    ELSE IF spent * 100 <= ExceededPercent * budget_amount THEN "warning"
    ELSE "exceeded"

\* percentage = spent / budget * 100 if budget > 0 else 0, and its status;
\* the comparisons are made exactly, percentage_used is rounded down.
ProgressStatus(spent, budget_amount) ==
    IF budget_amount <= 0 THEN "on_track"
    ELSE IF spent * 100 < WarningPercent * budget_amount THEN "on_track"
    ELSE IF spent * 100 < ExceededPercent * budget_amount THEN "warning"
    ELSE "exceeded"

PercentageUsed(spent, budget_amount) ==
    IF budget_amount > 0 THEN (spent * 100) \div budget_amount ELSE 0

ProgressItem(cat_budget, spent) ==
    [category |-> cat_budget.category,
     budget_amount |-> cat_budget.amount,
     spent_amount |-> spent,
     remaining_amount |-> cat_budget.amount - spent,
     percentage_used |-> PercentageUsed(spent, cat_budget.amount),
     status |-> ProgressStatus(spent, cat_budget.amount)]

\* spending_by_category.get(category, 0)
CategoryProgress(cat_budget, spending_by_category) ==
    ProgressItem(cat_budget,
                 IF cat_budget.category \in DOMAIN spending_by_category
                 THEN spending_by_category[cat_budget.category] ELSE 0)

\* The response built from the budget and the spending found.
ProgressBody(user_id, month, budget, spending_by_category, total_spent, t) ==
    [user_id |-> user_id, month |-> month,
     total_budget |-> budget.total_budget,
     total_spent |-> total_spent,
     remaining_budget |-> budget.total_budget - total_spent,
     percentage_used |-> PercentageUsed(total_spent, budget.total_budget),
     categories |-> [i \in 1..Len(budget.categories) |->
                        CategoryProgress(budget.categories[i], spending_by_category)],
     last_updated |-> t]

\* The handler from the fetch on: fresh data, or on any exception the
\* pipeline over the stored expenses of the month.
ProgressAfterFetch(store, user_id, month, budget, t, fetch, stored) ==
    [status |-> 200, detail |-> "",
     body |-> IF fetch.ok
              THEN ProgressBody(user_id, month, budget,
                                fetch.summary.expense_by_category,
                                fetch.summary.total_expenses, t)
              ELSE ProgressBody(user_id, month, budget, GroupByCategory(stored),
                                SumAmounts(stored), t),
     io |-> <<"budgets.find_one">> \o fetch.io
              \o (IF fetch.ok THEN <<>> ELSE <<"bank_transactions.aggregate">>),
     store |-> fetch.store, month |-> month, fetched |-> TRUE, fetch_ok |-> fetch.ok]

\* The handler from the budget lookup on: found are the budgets of the month.
ProgressForMonth(store, tokens, user_id, month, t, plaid, fault, start_date, end_date, found) ==
    IF found = {}
    THEN [status |-> 404, detail |-> "No budget found", body |-> NoBody,
          io |-> <<"budgets.find_one">>, store |-> store, month |-> month,
          fetched |-> FALSE, fetch_ok |-> FALSE]
    ELSE ProgressAfterFetch(store, user_id, month, CHOOSE b \in found : TRUE, t,
                            fetch_bank_transactions(tokens, store, user_id,
                                                    strftime_ymd(start_date),
                                                    strftime_ymd(end_date),
                                                    t, plaid, StoreFailAt(fault)),
                            StoredExpenses(store, user_id, start_date, end_date))

\* The handler from the effective month on.
ProgressValidated(budget_store, store, tokens, user_id, month, t, plaid, fault, month_date) ==
    IF ~month_date.ok
    THEN [status |-> 400, detail |-> MonthError, body |-> NoBody, io |-> <<>>,
          store |-> store, month |-> month, fetched |-> FALSE, fetch_ok |-> FALSE]
    ELSE IF ~DependsAwaited
    THEN [status |-> 500,
          detail |-> "Error retrieving budget progress: 'coroutine' object has no attribute 'find_one'",
          body |-> NoBody, io |-> <<>>, store |-> store, month |-> month,
          fetched |-> FALSE, fetch_ok |-> FALSE]
    ELSE ProgressForMonth(store, tokens, user_id, month, t, plaid, fault,
                          month_date.value, MonthEnd(month_date.value),
                          {b \in budget_store : b.user_id = user_id /\ b.month = month})

FormatYM(ymd) == Fmt4(ymd[1]) \o "-" \o Fmt2(ymd[2])

EffectiveMonth(month, t) == IF Falsy(month) THEN FormatYM(YMD(Today(t))) ELSE month

\* get_budget_progress(user_id, month) at time t: the response and the
\* transactions the live fetch leaves stored.
get_budget_progress(budget_store, store, tokens, user_id, month, t, plaid, fault) ==
    ProgressValidated(budget_store, store, tokens, user_id, EffectiveMonth(month, t), t,
                      plaid, fault, strptime_ym(EffectiveMonth(month, t)))

\* update_one on the _id of the existing token, or insert_one
TokenUpsert(tokens, existing, token_data) ==
    IF existing # {} THEN [tokens EXCEPT ![Least(existing)] = token_data]
    ELSE Append(tokens, token_data)

\* exchange_public_token(user_id, public_token, institution_id): the token
\* collection after Plaid has answered with item_id.
exchange_public_token(tokens, user_id, institution_id, item_id, t) ==
    TokenUpsert(tokens,
                IF Falsy(institution_id) THEN {}
                ELSE {i \in 1..Len(tokens) : /\ tokens[i].user_id = user_id
                                              /\ tokens[i].institution_id = institution_id},
                [user_id |-> user_id, institution_id |-> institution_id,
                 item_id |-> item_id, updated_at |-> t])

(***************************************************************************)
(* The requests the boundary layer makes, and what the environment answers.*)
(***************************************************************************)
\* (user, start_date, end_date) of a summary request; "" is a parameter left out.
\* u2 never links a bank.
SummaryInputs ==
    {<<"u1", "", "">>, <<"u1", "2024-02-28", "2024-03-01">>,
     <<"u1", "2024-02-29", "2024-03-01">>, <<"u1", "2024-02-30", "2024-03-01">>,
     <<"u2", "2024-02-28", "2024-03-01">>}

\* The requests of the runs that look at one ingestion at a time.
IngestInputs ==
    {<<"u1", "", "2024-03-01">>, <<"u1", "2024-02-29", "2024-03-01">>,
     <<"u1", "2024-02-29", "03/01/2024">>}

MonthInputs == {"", "2024-02", "2024-13"}

\* (user, institution) pairs a bank can be linked for
LinkInputs == {<<"u1", "ins_1">>, <<"u1", "ins_2">>}

BudgetInputs ==
    {[user_id |-> u, month |-> m, total_budget |-> 10000,
      categories |-> <<[category |-> "Coffee & Tea", amount |-> 500, notes |-> None]>>] :
        u \in {"u1"}, m \in MonthInputs \ {""}}

\* Hours the clock advances in one step.
TickHours == 24

MaxTime == 48

\* What an item answers in the runs that follow several requests.
FlowOutcomes == {PlaidOk(<<r1, r2, r3>>), PlaidOk(<<r1p, r5>>), PlaidFail("TIMEOUT")}

FlowFaults == {"none", "cache"}

\* Items no token names answer with a timeout; the choice is the others'.
PlaidAnswers(tokens, outcomes) ==
    {p \in [ItemIds -> outcomes \cup {PlaidFail("TIMEOUT")}] :
        \A i \in ItemIds : (\A k \in 1..Len(tokens) : tokens[k].item_id # i)
                              => p[i] = PlaidFail("TIMEOUT")}

\* The answer given when a re-authentication failure is a rate-limit failure instead.
Transient(plaid) ==
    [i \in ItemIds |-> IF plaid[i] = PlaidFail("ITEM_LOGIN_REQUIRED")
                       THEN PlaidFail("RATE_LIMIT_EXCEEDED") ELSE plaid[i]]

\* The record of the last request: what was asked, what was answered, and what
\* the handler found and did on the way.
NoRequest ==
    [op |-> "none", user_id |-> "", start_date |-> "", end_date |-> "",
     refresh |-> FALSE, status |-> 0, detail |-> "", body |-> NoBody,
     path |-> "", io |-> <<>>, at |-> 0,
     fetched |-> FALSE, fetch_ok |-> FALSE, fetch_error |-> "", banks |-> 0,
     succeeded |-> 0, logged |-> <<>>, raw |-> <<>>,
     auth_required |-> FALSE, alt_status |-> 0, alt_detail |-> "", alt_body |-> NoBody,
     pre_cache |-> {}, pre_stored |-> <<>>, fault |-> "none"]

\* The ingestion runs that are followed await by await.
Procs == {"a", "b"}

\* A run that has not started: pc is the await the run is at, banks the
\* connected banks still to fetch, acc what the loop over the banks has
\* gathered, todo the categorized transactions to store, i the one being
\* stored and existing what find_one returned for it.
IdleRun ==
    [pc |-> "idle", user_id |-> "",
     plaid |-> [i \in ItemIds |-> PlaidFail("TIMEOUT")], banks |-> <<>>,
     acc |-> [all_transactions |-> <<>>, succeeded |-> 0, logged |-> <<>>, io |-> <<>>],
     todo |-> <<>>, i |-> 0, existing |-> {}, error |-> ""]

\* The last call of a function that touches no collection: its argument and result.
NoCall == [op |-> "none", input |-> <<>>, output |-> <<>>]

Init ==
    /\ now = 0
    /\ plaid_tokens = <<>>
    /\ bank_transactions = <<>>
    /\ financial_summaries = {}
    /\ budgets = {}
    /\ nreq = 0
    /\ last = NoRequest
    /\ runs = [p \in Procs |-> IdleRun]
    /\ pure = NoCall

Tick ==
    /\ now + TickHours <= MaxTime
    /\ now' = now + TickHours
    /\ UNCHANGED <<plaid_tokens, bank_transactions, financial_summaries, budgets, nreq, last, runs, pure>>

\* The item ids no token holds.
FreshItems(tokens) ==
    {i \in ItemIds : \A k \in 1..Len(tokens) : tokens[k].item_id # i}

\* Plaid names a new item by an id no token holds.
FreshItem(tokens) == CHOOSE i \in FreshItems(tokens) : TRUE

\* Banks are linked before the first request and before the clock moves.
ExchangePublicToken(links) ==
    \E link \in links :
        /\ Len(plaid_tokens) < MaxTokens
        /\ FreshItems(plaid_tokens) # {}
        /\ nreq = 0
        /\ now = 0
        /\ plaid_tokens' = exchange_public_token(plaid_tokens, link[1], link[2],
                                                  FreshItem(plaid_tokens), now)
        /\ last' = [NoRequest EXCEPT !.op = "exchange", !.user_id = link[1], !.at = now]
        /\ UNCHANGED <<now, bank_transactions, financial_summaries, budgets, nreq, runs, pure>>

\* The record of a summary request: r is what the handler did, alt what it
\* does when the re-authentication failures are rate-limit failures.
SummaryRecord(user_id, refresh, plaid, fault, r, alt, lo, hi) ==
    [NoRequest EXCEPT
       !.op = "summary", !.user_id = user_id,
       !.start_date = r.start_date, !.end_date = r.end_date,
       !.refresh = refresh, !.status = r.status,
       !.detail = r.detail, !.body = r.body, !.path = r.path,
       !.io = r.io, !.at = now,
       !.fetched = r.fetched,
       !.fetch_ok = r.fetched /\ r.fetch.ok,
       !.fetch_error = IF r.fetched THEN r.fetch.error ELSE "",
       !.banks = IF r.fetched THEN r.fetch.banks ELSE 0,
       !.succeeded = IF r.fetched THEN r.fetch.succeeded ELSE 0,
       !.logged = IF r.fetched THEN r.fetch.logged ELSE <<>>,
       !.raw = IF r.fetched THEN r.fetch.raw ELSE <<>>,
       !.auth_required = r.fetched /\ plaid # Transient(plaid),
       !.alt_status = alt.status, !.alt_detail = alt.detail,
       !.alt_body = alt.body,
       !.pre_cache = CacheEntries(financial_summaries, user_id, r.start_date, r.end_date),
       !.pre_stored = IF lo.ok /\ hi.ok
                      THEN StoredInRange(bank_transactions, user_id, lo.value, hi.value)
                      ELSE <<>>,
       !.fault = fault]

GetFinancialSummary(requests, outcomes, faults, max) ==
    \E req \in requests, refresh \in BOOLEAN,
       plaid \in PlaidAnswers(plaid_tokens, outcomes), fault \in faults :
        /\ nreq < max
        /\ \E r \in {get_financial_summary(financial_summaries, bank_transactions,
                                             plaid_tokens, req[1], req[2], req[3],
                                             refresh, now, plaid, fault)} :
              /\ fault # "none" => r.path = "live" \/ r.status = 500
              /\ financial_summaries' = r.summaries
              /\ bank_transactions' = r.store
              /\ last' = SummaryRecord(req[1], refresh, plaid, fault, r,
                                       IF plaid = Transient(plaid) THEN r
                                       ELSE get_financial_summary(
                                                financial_summaries, bank_transactions,
                                                plaid_tokens, req[1], req[2], req[3],
                                                refresh, now, Transient(plaid), fault),
                                       strptime_ymd(r.start_date), strptime_ymd(r.end_date))
        /\ nreq' = nreq + 1
        /\ UNCHANGED <<now, plaid_tokens, budgets, runs, pure>>

CreateBudget ==
    \E budget \in BudgetInputs :
        /\ nreq < MaxRequests
        /\ \E r \in {create_budget(budgets, budget, now)} :
              /\ budgets' = r.budgets
              /\ last' = [NoRequest EXCEPT
                            !.op = "budget", !.user_id = budget.user_id,
                            !.start_date = budget.month,
                            !.status = r.status, !.detail = r.detail, !.body = r.body,
                            !.io = r.io, !.at = now]
        /\ nreq' = nreq + 1
        /\ UNCHANGED <<now, plaid_tokens, bank_transactions, financial_summaries, runs, pure>>

GetBudgetProgress ==
    \E user_id \in {"u1"}, month \in MonthInputs,
       plaid \in PlaidAnswers(plaid_tokens, FlowOutcomes), fault \in {"none"} :
        /\ nreq < MaxRequests
        /\ \E r \in {get_budget_progress(budgets, bank_transactions, plaid_tokens,
                                           user_id, month, now, plaid, fault)} :
              /\ bank_transactions' = r.store
              /\ last' = [NoRequest EXCEPT
                            !.op = "progress", !.user_id = user_id,
                            !.start_date = r.month,
                            !.status = r.status, !.detail = r.detail, !.body = r.body,
                            !.io = r.io, !.at = now, !.fetched = r.fetched,
                            !.fetch_ok = r.fetch_ok]
        /\ nreq' = nreq + 1
        /\ UNCHANGED <<now, plaid_tokens, financial_summaries, budgets, runs, pure>>

Next ==
    \/ Tick
    \/ ExchangePublicToken({<<"u1", "ins_1">>})
    \/ GetFinancialSummary(SummaryInputs, FlowOutcomes, FlowFaults, MaxRequests)
    \/ CreateBudget
    \/ GetBudgetProgress

Spec == Init /\ [][Next]_vars

\* One summary request against every way two linked banks can answer.
NextIngest ==
    \/ ExchangePublicToken(LinkInputs)
    \/ GetFinancialSummary(IngestInputs, PlaidOutcomes, DbFaults, 1)

SpecIngest == Init /\ [][NextIngest]_vars

\* Connections made with and without an institution_id, and items that hold
\* different transactions: item_1 answers t1 and t2 or fails, item_2 answers
\* t5 and t3 or fails.
AnyLinkInputs == LinkInputs \cup {<<"u1", None>>}

ItemAnswers(tokens) ==
    {p \in PlaidAnswers(tokens, {PlaidOk(<<r1, r2>>), PlaidOk(<<r5, r3>>)}) :
        p["item_1"] # PlaidOk(<<r5, r3>>) /\ p["item_2"] # PlaidOk(<<r1, r2>>)}

GetLinkedSummary ==
    \E req \in IngestInputs, refresh \in BOOLEAN, plaid \in ItemAnswers(plaid_tokens) :
        /\ nreq < 1
        /\ \E r \in {get_financial_summary(financial_summaries, bank_transactions,
                                             plaid_tokens, req[1], req[2], req[3],
                                             refresh, now, plaid, "none")} :
              /\ financial_summaries' = r.summaries
              /\ bank_transactions' = r.store
              /\ last' = SummaryRecord(req[1], refresh, plaid, "none", r, r,
                                       strptime_ymd(r.start_date), strptime_ymd(r.end_date))
        /\ nreq' = nreq + 1
        /\ UNCHANGED <<now, plaid_tokens, budgets, runs, pure>>

NextLinks ==
    \/ ExchangePublicToken(AnyLinkInputs)
    \/ GetLinkedSummary

SpecLinks == Init /\ [][NextLinks]_vars

(***************************************************************************)
(* fetch_bank_transactions await by await: the loop over the banks, then   *)
(* the find_one and the update_one / insert_one of every transaction.      *)
(* Between two awaits of a run the other run may take its own steps.       *)
(***************************************************************************)
\* transactions_get that never returns: the client sets no timeout.
PlaidHang == [ok |-> FALSE, ledger |-> <<>>, error |-> "NO_RESPONSE"]

RunOutcomes == {PlaidOk(<<r1, r2>>), PlaidOk(<<r1p>>), PlaidOk(<<r1n>>), PlaidFail("TIMEOUT"), PlaidHang}

\* The period every run asks for.
RunStart == Date(2024, 2, 28)

RunEnd == Date(2024, 3, 1)

AllIdle == \A p \in Procs : runs[p].pc = "idle"

\* The run once the loop over the banks has ended: categorize, then store.
AfterLoop(run, categorized) ==
    IF run.acc.all_transactions = <<>>
    THEN [run EXCEPT !.pc = "done",
                     !.error = ValueErrorOfFetch("No transactions found for the specified period")]
    ELSE IF ~categorized.ok
    THEN [run EXCEPT !.pc = "done", !.error = ValueErrorOfFetch(categorized.error)]
    ELSE [run EXCEPT !.pc = "find", !.todo = categorized.transactions, !.i = 1]

\* A loop that attempts the first bank that failed once more.
AfterBank_RetriesOnce(run, acc, rest) ==
    IF Len(acc.logged) = 1 /\ Len(run.acc.logged) = 0 THEN [run EXCEPT !.acc = acc]
    ELSE IF rest # <<>> THEN [run EXCEPT !.acc = acc, !.banks = rest]
    ELSE AfterLoop([run EXCEPT !.acc = acc, !.banks = <<>>],
                   _categorize_transactions(acc.all_transactions))

\* The run after one pass of the loop over the banks.
AfterBank(run, acc, rest) ==
    IF rest # <<>> THEN [run EXCEPT !.acc = acc, !.banks = rest]
    ELSE AfterLoop([run EXCEPT !.acc = acc, !.banks = <<>>],
                   _categorize_transactions(acc.all_transactions))

\* The call of fetch_bank_transactions up to the first get_transactions.
StartRun(p) ==
    /\ runs[p].pc = "idle"
    /\ \E plaid \in PlaidAnswers(plaid_tokens, RunOutcomes),
          banks \in {get_connected_banks(plaid_tokens, "u1")} :
          runs' = [runs EXCEPT ![p] =
                     IF banks = <<>>
                     THEN [IdleRun EXCEPT
                             !.pc = "done", !.user_id = "u1",
                             !.error = ValueErrorOfFetch(
                                           "No connected banks found for this user")]
                     ELSE [IdleRun EXCEPT
                             !.pc = "fetch", !.user_id = "u1", !.plaid = plaid,
                             !.banks = banks, !.acc.io = <<"plaid_tokens.find">>]]
    /\ UNCHANGED <<now, plaid_tokens, bank_transactions, financial_summaries, budgets, nreq, last, pure>>

\* Whether the call for a bank returns (with transactions or an exception).
Responds(run, bank) ==
    \/ get_access_token(plaid_tokens, run.user_id, bank.institution_id) = None
    \/ run.plaid[get_access_token(plaid_tokens, run.user_id, bank.institution_id)] # PlaidHang

\* One pass of the loop: await get_transactions for the next bank.
FetchBank(p) ==
    /\ runs[p].pc = "fetch"
    /\ Responds(runs[p], Head(runs[p].banks))
    /\ \E acc \in {FetchStep(runs[p].acc, Head(runs[p].banks),
                              get_transactions(plaid_tokens, runs[p].user_id,
                                               Head(runs[p].banks).institution_id,
                                               RunStart, RunEnd, now, runs[p].plaid))} :
          runs' = [runs EXCEPT ![p] = AfterBank(@, acc, Tail(runs[p].banks))]
    /\ UNCHANGED <<now, plaid_tokens, bank_transactions, financial_summaries, budgets, nreq, last, pure>>

\* The stored record find_one returns for (user_id, transaction_id), if any.
FindOne(store, user_id, transaction_id) ==
    {k \in 1..Len(store) :
        /\ store[k].user_id = user_id
        /\ store[k].transaction_id = transaction_id
        /\ \A j \in 1..(k - 1) : ~(/\ store[j].user_id = user_id
                                     /\ store[j].transaction_id = transaction_id)}

\* existing = await transactions_collection.find_one(...)
StoreFind(p) ==
    /\ runs[p].pc = "find"
    /\ runs' = [runs EXCEPT ![p].pc = "write",
                            ![p].existing = FindOne(bank_transactions, runs[p].user_id,
                                                    runs[p].todo[runs[p].i].transaction_id)]
    /\ UNCHANGED <<now, plaid_tokens, bank_transactions, financial_summaries, budgets, nreq, last, pure>>

\* await update_one on the _id found, or await insert_one
StoreWrite(p) ==
    /\ runs[p].pc = "write"
    /\ bank_transactions' = ReplaceOrAppend(bank_transactions, runs[p].existing,
                                            trans_to_store(runs[p].user_id,
                                                           runs[p].todo[runs[p].i], now))
    /\ runs' = [runs EXCEPT ![p].pc = IF runs[p].i = Len(runs[p].todo) THEN "done" ELSE "find",
                            ![p].i = @ + 1,
                            ![p].existing = {}]
    /\ UNCHANGED <<now, plaid_tokens, financial_summaries, budgets, nreq, last, pure>>

\* The cache document get_financial_summary writes after the run's live fetch.
RunRecord(run, t) ==
    [user_id |-> run.user_id, created_at |-> t, transaction_count |-> Len(run.todo),
     date_range |-> [start_date |-> strftime_ymd(RunStart), end_date |-> strftime_ymd(RunEnd)]]
        @@ _generate_transaction_summary(run.todo)

\* update_one(key, {"$set": ...}, upsert=True), the server's query for the
\* key. No unique index covers the key, so the server does not order this
\* query against the insert of another upsert of the same key.
CacheMatch(p) ==
    /\ runs[p].pc = "done"
    /\ runs[p].error = ""
    /\ runs' = [runs EXCEPT ![p].pc = "upsert",
                            ![p].existing = CacheEntries(financial_summaries, runs[p].user_id,
                                                         strftime_ymd(RunStart),
                                                         strftime_ymd(RunEnd))]
    /\ UNCHANGED <<now, plaid_tokens, bank_transactions, financial_summaries, budgets, nreq, last, pure>>

\* The write of the upsert: the insert when the query matched nothing,
\* otherwise the update of a document of the key.
CacheWrite(p) ==
    /\ runs[p].pc = "upsert"
    /\ financial_summaries' =
          IF runs[p].existing = {}
          THEN financial_summaries \cup {RunRecord(runs[p], now)}
          ELSE ReplaceOne(financial_summaries,
                          CacheEntries(financial_summaries, runs[p].user_id,
                                       strftime_ymd(RunStart), strftime_ymd(RunEnd)),
                          RunRecord(runs[p], now))
    /\ runs' = [runs EXCEPT ![p].pc = "answered", ![p].existing = {}]
    /\ UNCHANGED <<now, plaid_tokens, bank_transactions, budgets, nreq, last, pure>>

NextRuns ==
    \/ AllIdle /\ ExchangePublicToken(LinkInputs)
    \/ \E p \in Procs : StartRun(p)
    \/ \E p \in Procs : FetchBank(p)
    \/ \E p \in Procs : StoreFind(p)
    \/ \E p \in Procs : StoreWrite(p)
    \/ \E p \in Procs : CacheMatch(p)
    \/ \E p \in Procs : CacheWrite(p)

SpecRuns == Init /\ [][NextRuns]_vars

\* One request on its own. Every step of a request is the continuation of an
\* await whose call has returned, which the event loop resumes.
RunStep(p) ==
    FetchBank(p) \/ StoreFind(p) \/ StoreWrite(p) \/ CacheMatch(p) \/ CacheWrite(p)

NextOneRun ==
    \/ AllIdle /\ ExchangePublicToken(LinkInputs)
    \/ StartRun("a")
    \/ FetchBank("a")
    \/ StoreFind("a")
    \/ StoreWrite("a")
    \/ CacheMatch("a")
    \/ CacheWrite("a")

SpecOneRun == Init /\ [][NextOneRun]_vars /\ WF_vars(RunStep("a"))

(***************************************************************************)
(* The functions that touch no collection, called on their own.            *)
(***************************************************************************)
\* _categorize_transactions([t])
\* Each behaviour of the pure specification is one call of one function.
Categorize ==
    \E t \in CatPool :
        /\ pure = NoCall
        /\ pure' = [op |-> "categorize", input |-> <<t>>,
                    output |-> _categorize_transactions(<<t>>),
                    argument |-> MutatedArgument(<<t>>)]
        /\ UNCHANGED <<now, plaid_tokens, bank_transactions, financial_summaries, budgets, nreq, last, runs>>

\* The categorized transactions the aggregator is called with: expenses (two
\* of them with the same amount), income, a zero amount, each of them pending
\* or not.
SummaryPool ==
    {CategoryFields(r) @@ r :
        r \in {Raw("t0", amount, Date(2024, 2, 28), name, "Zed", <<>>, pending) :
                  amount \in {-250000, 0, 450, 1200},
                  name \in {"STARBUCKS #123", "Zed Hardware"},
                  pending \in BOOLEAN}}

\* Lists longer than the top-5 cut, with equal amounts among them.
LongPool ==
    {t \in SummaryPool : \/ t.name = "Zed Hardware" /\ ~t.pending /\ t.amount > 0
                         \/ t.name = "STARBUCKS #123" /\ t.amount = 1200}

SummaryLists ==
    UNION {[1..n -> SummaryPool] : n \in 0..2}
        \cup [1..(TopN + 1) -> LongPool]
        \cup [1..(TopN + 1) -> {t \in SummaryPool : ~t.pending /\ t.amount \in {-250000, 0}
                                                     /\ (t.amount = 0 => t.name = "Zed Hardware")}]

Summarize ==
    \E transactions \in SummaryLists :
        /\ pure = NoCall
        /\ pure' = [op |-> "summarize", input |-> transactions,
                    output |-> _generate_transaction_summary(transactions)]
        /\ UNCHANGED <<now, plaid_tokens, bank_transactions, financial_summaries, budgets, nreq, last, runs>>

\* Budgets of two categories, the first with an amount below, at and above
\* zero; the spending found has an entry for the first category only.
ProgressBudgets ==
    {[user_id |-> "u1", month |-> "2024-02", total_budget |-> total,
      categories |-> <<[category |-> "Coffee & Tea", amount |-> amount, notes |-> None],
                       [category |-> "Gas", amount |-> 10000, notes |-> None]>>] :
        total \in {0, 10000}, amount \in {-500, 0, 10000}}

\* Spending at 0%, 79.99%, 80%, 99.99%, 100% and 120% of 10000.
SpendInputs == {0, 7999, 8000, 9999, 10000, 12000}

\* The part of get_budget_progress that builds the response from the budget
\* and the spending found.
Progress ==
    \E budget \in ProgressBudgets, spent \in SpendInputs, total_spent \in SpendInputs :
        /\ pure = NoCall
        /\ pure' = [op |-> "progress",
                    input |-> [budget |-> budget, spent |-> spent, total_spent |-> total_spent],
                    output |-> ProgressBody(budget.user_id, budget.month, budget,
                                            DictAdd(<<>>, "Coffee & Tea", spent),
                                            total_spent, now)]
        /\ UNCHANGED <<now, plaid_tokens, bank_transactions, financial_summaries, budgets, nreq, last, runs>>

\* Every month of the years modelled, no month (the current month is taken),
\* a month number out of range and a month of one digit.
RangeMonths ==
    {FormatYM(<<y, m, 1>>) : y \in YearsModelled, m \in 1..12} \cup {"", "2024-13", "2024-2"}

\* The part of get_budget_progress that turns the month into the date range.
BudgetMonthRange ==
    \E month \in RangeMonths :
        /\ pure = NoCall
        /\ \E month_date \in {strptime_ym(EffectiveMonth(month, now))} :
              pure' = [op |-> "month_range", input |-> month,
                       output |-> IF month_date.ok THEN MonthRange(month_date.value)
                                  ELSE [ok |-> FALSE, error |-> MonthError]]
        /\ UNCHANGED <<now, plaid_tokens, bank_transactions, financial_summaries, budgets, nreq, last, runs>>

\* Categorized transactions of February 2024, on its first and last day:
\* expenses and income, pending or not, of two categories.
FallbackPool ==
    {CategoryFields(r) @@ r :
        r \in {Raw("t0", amount, date, name, "Zed", <<>>, pending) :
                  amount \in {-250000, 450}, date \in {Date(2024, 2, 1), Date(2024, 2, 29)},
                  name \in {"STARBUCKS #123", "Zed Hardware"}, pending \in BOOLEAN}}

\* The transactions of one live fetch of the month are summarized, and they
\* are stored and grouped as the fallback of get_budget_progress groups them.
FallbackGroupBy ==
    \E n \in 0..2 :
        \E f \in [1..n -> FallbackPool] :
            \E transactions \in {[i \in 1..n |-> [f[i] EXCEPT !.transaction_id = <<"t1", "t2">>[i]]]} :
                \E store \in {_store_transactions(<<>>, "u1", transactions, 0, now)} :
                    \E stored \in {StoredExpenses(store, "u1", Date(2024, 2, 1), MonthEnd(Date(2024, 2, 1)))} :
                        /\ pure = NoCall
                        /\ pure' = [op |-> "fallback", input |-> transactions,
                                    output |-> [live |-> _generate_transaction_summary(transactions),
                                                by_category |-> GroupByCategory(stored),
                                                total |-> SumAmounts(stored)]]
                        /\ UNCHANGED <<now, plaid_tokens, bank_transactions, financial_summaries, budgets, nreq, last, runs>>

\* The part of get_budget_progress that follows the budget lookup, for a
\* budget of February 2024 and one linked bank: the live fetch or the
\* fallback, and what it leaves in the summary cache, on which it makes no
\* call.
ProgressLiveFetch ==
    \E outcome \in {PlaidOk(<<r1, r2>>), PlaidOk(<<r3>>), PlaidFail("TIMEOUT")},
       cached \in SUBSET {[user_id |-> "u1", created_at |-> 0, transaction_count |-> 0,
                            date_range |-> [start_date |-> "2024-02-01",
                                            end_date |-> "2024-02-29"]] @@ EmptySummary},
       budget \in {b \in BudgetInputs : b.month = "2024-02"} :
        \E r \in {ProgressForMonth(<<>>, exchange_public_token(<<>>, "u1", "ins_1", "item_1", now),
                                     "u1", budget.month, now, [i \in ItemIds |-> outcome], "none",
                                     Date(2024, 2, 1), MonthEnd(Date(2024, 2, 1)), {budget})} :
            /\ pure = NoCall
            /\ pure' = [op |-> "progress_fetch",
                        input |-> [outcome |-> outcome, financial_summaries |-> cached],
                        output |-> [status |-> r.status, fetch_ok |-> r.fetch_ok, body |-> r.body,
                                    financial_summaries |-> cached]]
            /\ UNCHANGED <<now, plaid_tokens, bank_transactions, financial_summaries, budgets, nreq, last, runs>>

NextPure ==
    \/ ProgressLiveFetch
    \/ FallbackGroupBy
    \/ Categorize
    \/ Summarize
    \/ Progress
    \/ BudgetMonthRange

SpecPure == Init /\ [][NextPure]_vars

(***************************************************************************)
(* Properties of the summary cache (routes/finance.py, get_financial_summary)*)
(***************************************************************************)
\* C1: a summary request with refresh=false that finds an entry of exactly its
\* (user_id, start_date, end_date) key created less than 24 hours ago answers
\* 200 with that entry's summary, leaves the entry as it was, and makes no call
\* to the banking service (no token read, no Plaid call).
C1_FreshEntryServed ==
    (/\ last.op = "summary"
     /\ ~last.refresh
     /\ \E d \in last.pre_cache : last.at - d.created_at < 24)
    => /\ last.status = 200
       /\ \E d \in last.pre_cache : /\ last.at - d.created_at < 24
                                    /\ last.body = Response(d)
       /\ ~last.fetched
       /\ \A i \in 1..Len(last.io) :
             last.io[i] \notin {"plaid.transactions_get", "plaid_tokens.find",
                                "plaid_tokens.find_one"}
       /\ last.pre_cache \subseteq financial_summaries

\* A request served from an entry written by an earlier request.
C1_Witness ==
    /\ last.op = "summary"
    /\ ~last.refresh
    /\ \E d \in last.pre_cache : last.at - d.created_at < 24 /\ last.body = Response(d)
    /\ last.status = 200
    /\ last.io = <<"financial_summaries.find_one">>

\* C2: with refresh=false, no valid cache entry, a failed live fetch and at
\* least one stored transaction of the user in the range, the request answers
\* 200 with the summary recomputed from exactly those stored transactions.
C2_StoredFallbackServed ==
    (/\ last.op = "summary"
     /\ ~last.refresh
     /\ last.fetched /\ ~last.fetch_ok
     /\ last.pre_stored # <<>>)
    => /\ last.status = 200
       /\ last.body = Response(StoredSummaryOf(last.pre_stored, last.start_date,
                                               last.end_date))

C4_LiveFetchOverwritesEntry ==
    (/\ last.op = "summary"
     /\ last.fetch_ok
     /\ last.fault # "cache")
    => /\ last.status = 200
       /\ Cardinality(CacheEntries(financial_summaries, last.user_id,
                                   last.start_date, last.end_date)) = 1
       /\ \A d \in CacheEntries(financial_summaries, last.user_id,
                                last.start_date, last.end_date) :
             /\ Response(d) = last.body
             /\ d.created_at = last.at

\* A live fetch that replaced an older entry holding another summary.
C4_Witness ==
    /\ last.op = "summary"
    /\ last.fetch_ok
    /\ last.fault # "cache"
    /\ \E d \in last.pre_cache : Response(d) # last.body /\ d.created_at < last.at

\* C5: a response is a cache entry only if the entry has the request's key,
\* is strictly less than 24 hours old, and refresh=false.
C5_OnlyFreshEntryReturned ==
    (last.op = "summary" /\ last.path = "cache")
    => /\ ~last.refresh
       /\ \E d \in last.pre_cache : /\ last.body = Response(d)
                                    /\ last.at - d.created_at < 24

(***************************************************************************)
(* Properties of live ingestion (BankingService.fetch_bank_transactions)   *)
(***************************************************************************)
\* C6: when some but not all (or none) of a user's institutions fail and the
\* successful ones return at least one transaction, ingestion succeeds, every
\* failure is logged and none raised, and the summary counts exactly the
\* transactions the successful institutions returned.
C6_PartialFailureTolerated ==
    (/\ last.op = "summary"
     /\ last.fetched
     /\ last.succeeded >= 1
     /\ last.raw # <<>>)
    => /\ last.fetch_ok
       /\ Len(last.logged) = last.banks - last.succeeded
       /\ last.fault # "cache"
          => /\ last.status = 200
             /\ last.body.transaction_count = Len(last.raw)

\* C7 as claimed: with a bank connected, ingestion fails for want of data
\* exactly when every institution's fetch failed.
C7_NoDataOnlyWhenAllFail ==
    (/\ last.op = "summary"
     /\ last.fetched
     /\ last.banks >= 1)
    => ((/\ ~last.fetch_ok
         /\ last.fetch_error =
               ValueErrorOfFetch("No transactions found for the specified period"))
        <=> last.succeeded = 0)

\* C7: with a bank connected, ingestion fails with "No transactions found for
\* the specified period" exactly when the fetches that succeeded returned no
\* transaction between them: when every fetch failed, and also when a fetch
\* succeeded with an empty result.
C7_NoDataIffNothingReturned ==
    (/\ last.op = "summary"
     /\ last.fetched
     /\ last.banks >= 1)
    => ((/\ ~last.fetch_ok
         /\ last.fetch_error =
               ValueErrorOfFetch("No transactions found for the specified period"))
        <=> last.raw = <<>>)

\* An institution answered with no transaction and ingestion failed for want of data.
C7_Witness ==
    /\ last.op = "summary"
    /\ last.fetched
    /\ last.banks >= 1
    /\ last.succeeded >= 1
    /\ last.raw = <<>>
    /\ ~last.fetch_ok
    /\ last.fetch_error =
          ValueErrorOfFetch("No transactions found for the specified period")

\* C8: when an institution's fetch fails because the item needs a new login,
\* what the request answers (status, detail, body) differs from what it
\* answers when that fetch fails with a rate-limit error instead.
C8_AuthRequiredDistinguishable ==
    (/\ last.op = "summary"
     /\ last.auth_required
     /\ \E i \in 1..Len(last.logged) :
           last.logged[i] = PlaidErrorMessage("ITEM_LOGIN_REQUIRED"))
    => <<last.status, last.detail, last.body>>
          # <<last.alt_status, last.alt_detail, last.alt_body>>

\* C9: when a write to the transaction store or the cache write fails after
\* the fetch produced data, the request still answers 200 with the summary of
\* the fetched transactions.
C9_StorageFailureTolerated ==
    (/\ last.op = "summary"
     /\ last.fetch_ok
     /\ last.fault # "none")
    => /\ last.status = 200
       /\ last.body.transaction_count = Len(last.raw)

\* C10: a malformed start_date or end_date of a summary request, and a
\* malformed month of a budget or budget-progress request, is answered 400
\* before the request has made any database or Plaid call.
C10_MalformedRejectedBeforeIO ==
    /\ (/\ last.op = "summary"
        /\ ~strptime_ymd(last.start_date).ok \/ ~strptime_ymd(last.end_date).ok)
       => last.status = 400 /\ last.io = <<>>
    /\ (/\ last.op \in {"budget", "progress"}
        /\ ~strptime_ym(last.start_date).ok)
       => last.status = 400 /\ last.io = <<>>

(***************************************************************************)
(* Properties of the transaction store (BankingService._store_transactions)*)
(***************************************************************************)
\* C11: after any sequence of ingestion runs that follow one another, the
\* store holds at most one record per (user_id, transaction_id), and every
\* transaction of the latest run is stored with that run's amount, date and
\* pending flag: a transaction stored pending and then settled is one record
\* with pending = FALSE.
C11_OneRecordPerTransaction ==
    /\ \A i, j \in 1..Len(bank_transactions) :
          (/\ bank_transactions[i].user_id = bank_transactions[j].user_id
           /\ bank_transactions[i].transaction_id = bank_transactions[j].transaction_id)
          => i = j
    /\ (last.op = "summary" /\ last.fetch_ok)
       => \A k \in 1..Len(last.raw) :
             \E i \in 1..Len(bank_transactions) :
                /\ bank_transactions[i].user_id = last.user_id
                /\ bank_transactions[i].transaction_id = last.raw[k].transaction_id
                /\ bank_transactions[i].pending = last.raw[k].pending
                /\ bank_transactions[i].amount = last.raw[k].amount
                /\ bank_transactions[i].date = last.raw[k].date
                /\ bank_transactions[i].stored_at = last.at

\* A run stored as settled a transaction that an earlier run had stored pending.
C11_Witness ==
    /\ last.op = "summary"
    /\ last.fetch_ok
    /\ \E k \in 1..Len(last.raw), i \in 1..Len(last.pre_stored) :
          /\ last.pre_stored[i].transaction_id = last.raw[k].transaction_id
          /\ last.pre_stored[i].pending
          /\ ~last.raw[k].pending
    /\ Cardinality({i \in 1..Len(bank_transactions) :
                       bank_transactions[i].transaction_id = "t1"}) = 1

\* C12: when two ingestion runs overlap and both store a transaction of the
\* same (user_id, transaction_id), the store ends with exactly one record of
\* that key, in the state one of the two sequential orders of the runs leaves.
C12_ConcurrentStoreSerializable ==
    (\A p \in Procs : runs[p].pc = "done")
    => /\ \A i, j \in 1..Len(bank_transactions) :
             (/\ bank_transactions[i].user_id = bank_transactions[j].user_id
              /\ bank_transactions[i].transaction_id = bank_transactions[j].transaction_id)
             => i = j
       /\ \E p, q \in Procs :
             /\ p # q
             /\ bank_transactions =
                   _store_transactions(
                       _store_transactions(<<>>, runs[p].user_id, runs[p].todo, 0, now),
                       runs[q].user_id, runs[q].todo, 0, now)

\* C13: an institution whose call never returns does not block its siblings:
\* while a run waits for it, the call of every other connected institution
\* of the run has been issued.
C13_SlowBankBlocksNoSibling ==
    \A p \in Procs :
        (/\ runs[p].pc = "fetch"
         /\ ~Responds(runs[p], Head(runs[p].banks)))
        => Len(runs[p].banks) = 1

(***************************************************************************)
(* Properties of the categorizer and the aggregator                        *)
(***************************************************************************)
\* C14: every transaction the categorizer returns has transaction_type
\* "expense" when its amount is positive; when its amount is zero or negative
\* it has transaction_type "income" and both categories "Income", whatever
\* keyword its name or merchant matches.
C14_TypeFollowsSign ==
    (pure.op = "categorize" /\ pure.output.ok)
    => \A i \in 1..Len(pure.output.transactions) :
          /\ pure.output.transactions[i].amount = pure.input[i].amount
          /\ pure.input[i].amount > 0
             => pure.output.transactions[i].transaction_type = "expense"
          /\ pure.input[i].amount <= 0
             => /\ pure.output.transactions[i].transaction_type = "income"
                /\ pure.output.transactions[i].enhanced_category = "Income"
                /\ pure.output.transactions[i].high_level_category = "Income"

\* A zero amount whose name matches a keyword is categorized as income.
C14_Witness ==
    /\ pure.op = "categorize"
    /\ pure.output.ok
    /\ pure.input[1].amount = 0
    /\ pure.input[1].name = "STARBUCKS #123"
    /\ pure.output.transactions[1].category_confidence = "high"
    /\ pure.output.transactions[1].enhanced_category = "Income"

\* C15: for every list of categorized transactions the summary's
\* total_expenses is the sum of the amounts of the non-pending expenses, its
\* total_income the sum of |amount| of the non-pending income transactions and
\* its net_cash_flow their difference; pending transactions add to none.
C15_TotalsAreExactSums ==
    pure.op = "summarize"
    => /\ pure.output.total_expenses =
             SumSeq([i \in 1..Len(pure.input) |->
                        IF ~pure.input[i].pending /\ pure.input[i].transaction_type = "expense"
                        THEN pure.input[i].amount ELSE 0])
       /\ pure.output.total_income =
             SumSeq([i \in 1..Len(pure.input) |->
                        IF ~pure.input[i].pending /\ pure.input[i].transaction_type = "income"
                        THEN Abs(pure.input[i].amount) ELSE 0])
       /\ pure.output.net_cash_flow =
             pure.output.total_income - pure.output.total_expenses

\* A pending expense next to a counted income: the expense adds nothing.
C15_Witness ==
    /\ pure.op = "summarize"
    /\ Len(pure.input) = 2
    /\ pure.input[1].pending /\ pure.input[1].amount = 1200
    /\ ~pure.input[2].pending /\ pure.input[2].amount = -250000
    /\ pure.output.total_expenses = 0
    /\ pure.output.net_cash_flow = 250000

\* C16 as stated: largest_expenses has length min(5, number of non-pending
\* expenses) and each entry's amount is strictly greater than the next one's.
C16_Top5StrictlyDescending ==
    pure.op = "summarize"
    => /\ Len(pure.output.largest_expenses) =
             LET n == Cardinality({i \in 1..Len(pure.input) :
                          ~pure.input[i].pending /\ pure.input[i].transaction_type = "expense"})
             IN  IF n < 5 THEN n ELSE 5
       /\ \A i \in 1..(Len(pure.output.largest_expenses) - 1) :
             pure.output.largest_expenses[i].amount > pure.output.largest_expenses[i + 1].amount

\* C16, amended: largest_expenses has length min(5, number of non-pending
\* expenses), no entry's amount is smaller than the next one's (equal amounts
\* stay next to each other), and no non-pending expense left out has a larger
\* amount than an entry kept.
C16_Top5NonIncreasing ==
    pure.op = "summarize"
    => /\ Len(pure.output.largest_expenses) =
             LET n == Cardinality({i \in 1..Len(pure.input) :
                          ~pure.input[i].pending /\ pure.input[i].transaction_type = "expense"})
             IN  IF n < 5 THEN n ELSE 5
       /\ \A i \in 1..(Len(pure.output.largest_expenses) - 1) :
             pure.output.largest_expenses[i].amount >= pure.output.largest_expenses[i + 1].amount
       /\ \A i \in 1..Len(pure.input) :
             (/\ ~pure.input[i].pending
              /\ pure.input[i].transaction_type = "expense"
              /\ Len(pure.output.largest_expenses) = 5)
             => pure.input[i].amount <= pure.output.largest_expenses[1].amount
                /\ (pure.input[i].amount > pure.output.largest_expenses[5].amount
                    => \E k \in 1..5 : pure.output.largest_expenses[k].amount = pure.input[i].amount)

\* Six non-pending expenses, the larger amount last: five are kept, the larger
\* first, followed by equal amounts.
C16_Witness ==
    /\ pure.op = "summarize"
    /\ Len(pure.input) = 6
    /\ \A i \in 1..6 : ~pure.input[i].pending
    /\ \A i \in 1..5 : pure.input[i].amount = 450
    /\ pure.input[6].amount = 1200
    /\ Len(pure.output.largest_expenses) = 5
    /\ pure.output.largest_expenses[1].amount = 1200
    /\ pure.output.largest_expenses[2].amount = pure.output.largest_expenses[3].amount

(***************************************************************************)
(* Properties of the budget progress computation                           *)
(***************************************************************************)
\* C17: a budget category with amount > 0 is "on_track" exactly when
\* spend*100 < 80*amount, "warning" exactly when 80*amount <= spend*100 <
\* 100*amount and "exceeded" exactly when spend*100 >= 100*amount; a category
\* with amount <= 0 has percentage 0 and status "on_track" whatever its spend;
\* the overall percentage follows the same rule from total_spent and
\* total_budget.
C17_StatusThresholds ==
    pure.op = "progress"
    => /\ \A i \in 1..Len(pure.output.categories) :
             LET item == pure.output.categories[i]
                 amount == pure.input.budget.categories[i].amount
                 spend == IF i = 1 THEN pure.input.spent ELSE 0
             IN  /\ item.spent_amount = spend
                 /\ amount > 0 =>
                       /\ item.status = "on_track" <=> spend * 100 < 80 * amount
                       /\ item.status = "warning" <=>
                             (80 * amount <= spend * 100 /\ spend * 100 < 100 * amount)
                       /\ item.status = "exceeded" <=> spend * 100 >= 100 * amount
                       /\ item.percentage_used * amount <= spend * 100
                       /\ spend * 100 < (item.percentage_used + 1) * amount
                 /\ amount <= 0 => item.percentage_used = 0 /\ item.status = "on_track"
       /\ pure.input.budget.total_budget > 0 =>
             /\ pure.output.percentage_used * pure.input.budget.total_budget
                   <= pure.input.total_spent * 100
             /\ pure.input.total_spent * 100
                   < (pure.output.percentage_used + 1) * pure.input.budget.total_budget
       /\ pure.input.budget.total_budget <= 0 => pure.output.percentage_used = 0

\* Spend at exactly 80% of the amount is "warning"; the category without
\* spending is "on_track".
C17_Witness ==
    /\ pure.op = "progress"
    /\ pure.input.budget.categories[1].amount = 10000
    /\ pure.input.spent = 8000
    /\ pure.output.categories[1].status = "warning"
    /\ pure.output.categories[1].percentage_used = 80
    /\ pure.output.categories[2].status = "on_track"

\* C18: for every valid budget month YYYY-MM the range starts on the first
\* day of the month and ends at the final instant of its true last calendar
\* day (31 for December, 29 for February of a leap year, 28 otherwise): every
\* instant of the last day is inside the range, the first instant of the next
\* month and the last instant of the month before are outside.
C18_MonthRangeExact ==
    \A y \in YearsModelled, m \in 1..12 :
        (pure.op = "month_range" /\ pure.input = FormatYM(<<y, m, 1>>))
        => /\ pure.output.ok
           /\ pure.output.start_date = <<Date(y, m, 1), 0>>
           /\ pure.output.end_date = <<Date(y, m, DaysInMonth(y, m)), HoursPerDay - 1>>
           /\ pure.output.fetch_start = FormatYMD(<<y, m, 1>>)
           /\ pure.output.fetch_end = FormatYMD(<<y, m, DaysInMonth(y, m)>>)
           /\ \A h \in 0..(HoursPerDay - 1) :
                 WithinInstants(<<Date(y, m, DaysInMonth(y, m)), h>>,
                                pure.output.start_date, pure.output.end_date)
           /\ ~WithinInstants(<<Date(y, m, DaysInMonth(y, m)) + 1, 0>>,
                              pure.output.start_date, pure.output.end_date)
           /\ ~WithinInstants(<<Date(y, m, 1) - 1, HoursPerDay - 1>>,
                              pure.output.start_date, pure.output.end_date)
           /\ (m = 12 => pure.output.fetch_end = FormatYMD(<<y, 12, 31>>))
           /\ (pure.input = "2024-02" => pure.output.fetch_end = "2024-02-29")
           /\ (pure.input = "2025-02" => pure.output.fetch_end = "2025-02-28")

\* December: the end is computed from January of the next year.
C18_Witness ==
    /\ pure.op = "month_range"
    /\ pure.input = "2024-12"
    /\ pure.output.ok
    /\ pure.output.fetch_start = "2024-12-01"
    /\ pure.output.fetch_end = "2024-12-31"
    /\ pure.output.end_date[2] = HoursPerDay - 1

\* C19: after any sequence of create_budget calls the budgets collection
\* holds at most one budget per (user_id, month), and after a call with a
\* valid month it holds the budget of that key with the total_budget and
\* categories of the call, created no later than the call.
C19_UpsertKeepsLatestBudget ==
    /\ \A b1 \in budgets, b2 \in budgets :
          (b1.user_id = b2.user_id /\ b1.month = b2.month) => b1 = b2
    /\ (last.op = "budget" /\ strptime_ym(last.start_date).ok)
       => \E b \in budgets, budget \in BudgetInputs :
             /\ budget.user_id = last.user_id /\ budget.month = last.start_date
             /\ b.user_id = budget.user_id /\ b.month = budget.month
             /\ b.total_budget = budget.total_budget
             /\ b.categories = budget.categories
             /\ b.created_at <= last.at

\* C20: for every expense transaction the categorizer sets enhanced_category
\* to the category of the first table entry, in table order, whose keyword is
\* a case-insensitive substring of merchant_name or of name, with confidence
\* "high"; when no keyword matches the category is the aggregator's top
\* category (default "Uncategorized") with confidence "medium".
C20_FirstKeywordWins ==
    (pure.op = "categorize" /\ pure.input[1].amount > 0)
    => LET t == pure.input[1]
           hits == {i \in 1..Len(merchant_category_map) :
                       \/ t.merchant_name # None
                          /\ Contains(Lower(t.merchant_name), merchant_category_map[i][1])
                       \/ t.name # None
                          /\ Contains(Lower(t.name), merchant_category_map[i][1])}
       IN  /\ pure.output.ok
           /\ Len(pure.output.transactions) = 1
           /\ (pure.output.transactions[1].category_confidence = "high") <=> (hits # {})
           /\ pure.output.transactions[1].category_confidence \in {"high", "medium"}
           /\ \A i \in hits :
                 (\A j \in hits : i <= j)
                 => pure.output.transactions[1].enhanced_category = merchant_category_map[i][2]
           /\ hits = {}
              => pure.output.transactions[1].enhanced_category =
                    (IF t.category = <<>> THEN "Uncategorized" ELSE t.category[1])

(***************************************************************************)
(* Robustness and purity of the categorizer                                *)
(***************************************************************************)
\* C21: the categorizer completes without error for every raw transaction,
\* including one whose merchant_name is null or whose category list is
\* empty; with a null merchant_name the keyword match is decided by the name
\* alone.
C21_CategorizerCompletes ==
    pure.op = "categorize"
    => /\ pure.output.ok
       /\ Len(pure.output.transactions) = Len(pure.input)
       /\ (pure.input[1].merchant_name = None /\ pure.input[1].name # None)
          => (pure.output.transactions[1].category_confidence = "high")
                <=> (FirstKeyword("", Lower(pure.input[1].name)) # 0)

\* C22: the categorizer is side-effect-free: after the call every record of
\* the list it was given has exactly the fields and values it had before.
C22_CategorizeLeavesInputUnchanged ==
    pure.op = "categorize" => pure.argument = pure.input

(***************************************************************************)
(* The top-5 lists and the breakdowns of the aggregator                    *)
(***************************************************************************)
\* C23: both top-5 lists are in descending order of magnitude, entries of
\* equal magnitude keep their input order, and of the candidates tied at the
\* cut the earlier ones of the input are kept: the candidate of input
\* position i stands at the place given by the number of candidates larger
\* than it plus the number of equal candidates before it.
C23_Top5StableOrder ==
    pure.op = "summarize"
    => LET in == pure.input
           Cand(type) == {i \in 1..Len(in) : ~in[i].pending /\ in[i].transaction_type = type}
           Rank(i, type) ==
               1 + Cardinality({j \in Cand(type) : Abs(in[j].amount) > Abs(in[i].amount)})
                 + Cardinality({j \in Cand(type) : j < i /\ Abs(in[j].amount) = Abs(in[i].amount)})
           Kept(n) == IF n < 5 THEN n ELSE 5
       IN  /\ Len(pure.output.largest_expenses) = Kept(Cardinality(Cand("expense")))
           /\ Len(pure.output.largest_income) = Kept(Cardinality(Cand("income")))
           /\ \A i \in Cand("expense") :
                 Rank(i, "expense") <= 5
                 => pure.output.largest_expenses[Rank(i, "expense")] =
                       [name |-> in[i].name, amount |-> in[i].amount, date |-> in[i].date,
                        category |-> in[i].enhanced_category]
           /\ \A i \in Cand("income") :
                 Rank(i, "income") <= 5
                 => pure.output.largest_income[Rank(i, "income")] =
                       [name |-> in[i].name, amount |-> Abs(in[i].amount), date |-> in[i].date]

\* Six expenses of one amount under alternating names: the first five of the
\* input are kept, in input order.
C23_Witness ==
    /\ pure.op = "summarize"
    /\ Len(pure.input) = 6
    /\ \A i \in 1..6 : ~pure.input[i].pending /\ pure.input[i].amount = 1200
    /\ \A i \in {1, 3, 5} : pure.input[i].name = "Zed Hardware"
    /\ \A i \in {2, 4, 6} : pure.input[i].name = "STARBUCKS #123"
    /\ Len(pure.output.largest_expenses) = 5
    /\ \A k \in 1..5 : pure.output.largest_expenses[k].name = pure.input[k].name

\* C24: once the transactions of a live fetch are stored, the group-by of the
\* get_budget_progress fallback over the same date range gives the same
\* spend per category and the same total as the aggregator's
\* expense_by_category and total_expenses over them.
C24_FallbackAgreesWithLive ==
    pure.op = "fallback"
    => /\ pure.output.by_category = pure.output.live.expense_by_category
       /\ pure.output.total = pure.output.live.total_expenses

\* A pending expense and an expense of the last day of the month: only the
\* second is counted, by both.
C24_Witness ==
    /\ pure.op = "fallback"
    /\ Len(pure.input) = 2
    /\ pure.input[1].pending /\ pure.input[1].amount = 450
    /\ ~pure.input[2].pending /\ pure.input[2].amount = 450
    /\ pure.input[2].date = Date(2024, 2, 29)
    /\ pure.output.total = 450
    /\ pure.output.by_category = ("Coffee & Tea" :> 450)

(***************************************************************************)
(* The stored transactions                                                 *)
(***************************************************************************)
\* C25: in every state of the bank_transactions collection, also after a
\* transaction has been ingested again with another amount, the stored
\* transaction_type of each record is the one its stored amount gives:
\* "expense" exactly when the amount is positive, otherwise "income".
C25_StoredTypeFollowsAmount ==
    \A i \in 1..Len(bank_transactions) :
        /\ bank_transactions[i].transaction_type \in {"expense", "income"}
        /\ (bank_transactions[i].transaction_type = "expense")
              <=> (bank_transactions[i].amount > 0)

\* One run ingested t1 as an expense, the other ingested it with a negative
\* amount; the one record of t1 left is the income.
C25_Witness ==
    /\ \A p \in Procs : runs[p].pc = "done" /\ Len(runs[p].todo) = 1
    /\ runs["a"].todo[1].transaction_id = "t1" /\ runs["a"].todo[1].amount = 450
    /\ runs["a"].todo[1].transaction_type = "expense"
    /\ runs["b"].todo[1].transaction_id = "t1" /\ runs["b"].todo[1].amount = -450
    /\ Len(bank_transactions) = 1
    /\ bank_transactions[1].amount = -450
    /\ bank_transactions[1].transaction_type = "income"

(***************************************************************************)
(* The summary cache under concurrent requests                             *)
(***************************************************************************)
\* C26: when concurrent summary requests of one (user_id, start_date,
\* end_date) have all fetched and answered, the cache holds exactly one
\* entry of that key, and it is the whole summary one of them wrote.
C26_ConcurrentUpsertOneEntry ==
    (\A p \in Procs : runs[p].pc = "answered")
    => /\ Cardinality(CacheEntries(financial_summaries, "u1", strftime_ymd(RunStart),
                                   strftime_ymd(RunEnd))) = 1
       /\ \A d \in financial_summaries : \E p \in Procs : d = RunRecord(runs[p], now)

(***************************************************************************)
(* One request: fetches issued and termination                             *)
(***************************************************************************)
\* C27: a request calls transactions_get once for each connected bank the
\* loop has passed, whether the call succeeded or failed, and never again;
\* and a request all of whose banks answer or fail reaches a terminal
\* outcome: its answer, or the error it raises.
C27_OneFetchPerBankThenTerminal ==
    /\ [](runs["a"].pc # "idle"
          => LET calls == Cardinality({i \in 1..Len(runs["a"].acc.io) :
                                         runs["a"].acc.io[i] = "plaid.transactions_get"})
                 connected == Len(get_connected_banks(plaid_tokens, "u1"))
             IN  /\ calls + Len(runs["a"].banks) = connected
                 /\ runs["a"].acc.succeeded + Len(runs["a"].acc.logged) = calls)
    /\ (runs["a"].pc = "fetch"
           /\ \A i \in 1..Len(runs["a"].banks) : Responds(runs["a"], runs["a"].banks[i]))
        ~> (runs["a"].pc = "answered" \/ (runs["a"].pc = "done" /\ runs["a"].error # ""))

\* Two banks, the first fails and the second answers: two calls, one logged
\* failure, and the request has answered.
C27_Witness ==
    /\ runs["a"].pc = "answered"
    /\ Len(get_connected_banks(plaid_tokens, "u1")) = 2
    /\ Len(runs["a"].acc.logged) = 1
    /\ runs["a"].acc.succeeded = 1
    /\ Cardinality({i \in 1..Len(runs["a"].acc.io) :
                       runs["a"].acc.io[i] = "plaid.transactions_get"}) = 2

C29_EachTransactionCountedOnce ==
    (last.op = "summary" /\ last.fetch_ok)
    => /\ \A i, j \in 1..Len(last.raw) :
             last.raw[i].transaction_id = last.raw[j].transaction_id => i = j
       /\ last.body.transaction_count =
             Cardinality({last.raw[i].transaction_id : i \in 1..Len(last.raw)})

(***************************************************************************)
(* The breakdowns of a summary                                             *)
(***************************************************************************)
\* C30: in every summary the values of expense_by_category add up to
\* total_expenses, and so do the values of expense_by_high_level_category; a
\* key is in a breakdown only if a non-pending expense has that category.
C30_BreakdownsAddUp ==
    pure.op = "summarize"
    => LET RECURSIVE SumValues(_, _)
           SumValues(d, keys) ==
               IF keys = {} THEN 0
               ELSE LET k == CHOOSE x \in keys : TRUE
                    IN  d[k] + SumValues(d, keys \ {k})
           counted == {i \in 1..Len(pure.input) :
                          ~pure.input[i].pending /\ pure.input[i].transaction_type = "expense"}
       IN  /\ SumValues(pure.output.expense_by_category,
                        DOMAIN pure.output.expense_by_category)
                 = pure.output.total_expenses
           /\ SumValues(pure.output.expense_by_high_level_category,
                        DOMAIN pure.output.expense_by_high_level_category)
                 = pure.output.total_expenses
           /\ DOMAIN pure.output.expense_by_category
                 \subseteq {pure.input[i].enhanced_category : i \in counted}
           /\ DOMAIN pure.output.expense_by_high_level_category
                 \subseteq {pure.input[i].high_level_category : i \in counted}

\* Two counted expenses of one category: one key, holding their sum.
C30_Witness ==
    /\ pure.op = "summarize"
    /\ Len(pure.input) = 2
    /\ \A i \in 1..2 : ~pure.input[i].pending /\ pure.input[i].name = "STARBUCKS #123"
    /\ pure.input[1].amount = 450 /\ pure.input[2].amount = 1200
    /\ pure.output.expense_by_category = ("Coffee & Tea" :> 1650)
    /\ pure.output.expense_by_high_level_category = ("Food & Dining" :> 1650)
    /\ pure.output.total_expenses = 1650
====
